---- MODULE Spec2Model ----
(***************************************************************************)
(* av1parser: the reference-frame manager (src/src/av1.rs), the relative   *)
(* distance helper, and the stream driver process_obu (src/src/main.rs)    *)
(* with the sequence-header and frame-header parsers (src/src/obu.rs).     *)
(*                                                                         *)
(* Integers of the program are modelled with their width where it matters: *)
(* the frame-id arithmetic of mark_ref_frames is u16.  Rust checks integer *)
(* overflow in a debug build (the program panics) and wraps in a release   *)
(* build; the variable build holds which of the two the run is.            *)
(***************************************************************************)
EXTENDS Integers, Sequences, FiniteSets, TLC

VARIABLES
    build,  \* "debug" | "release": overflow checks on or off
    config, \* AppConfig: [verbose], the count of -v on the command line
    pc,     \* "run" | "panic": a panic (assert!, unimplemented!, overflow) ends the process
    seq,    \* av1::Sequence: [sh, rfman]
    last,   \* the last operation performed: its name, arguments and results
    stats   \* counts of the frame headers parsed: [decoded, shown]

vars == <<build, config, pc, seq, last, stats>>

----------------------------------------------------------------------------
(* Program constants                                                       *)

NUM_REF_FRAMES == 8
REFS_PER_FRAME == 7
KEY_FRAME == 0
INTER_FRAME == 1
INTRA_ONLY_FRAME == 2
SWITCH_FRAME == 3
LAST_FRAME == 1
ALTREF_FRAME == 7
PRIMARY_REF_NONE == 7
WARPEDMODEL_PREC_BITS == 16

\* i64::min_value(), the initial frame_buf entry.  Only its being negative
\* (no decode index) matters; the value is the least one the checker's
\* integers hold.
I64_MIN == -2147483647

Slots == 0 .. (NUM_REF_FRAMES - 1)
Builds == {"debug", "release"}

Pow2(n) == 2 ^ n

\* bit i of an unsigned value: (v >> i) & 1
Bit(v, i) == (v \div Pow2(i)) % 2

----------------------------------------------------------------------------
(* u16 arithmetic of the frame-id computations                             *)

U16_RANGE == 65536

\* value of `1 << n` on u16 in a release build (the shift amount is masked
\* to the width); equal to 2^n when n < 16
shl1_u16(n) == Pow2(n % 16)

\* `1 << n` on u16 overflows (panics in a debug build) when n >= 16
shl1_u16_overflows(n) == n >= 16

----------------------------------------------------------------------------
(* Global motion parameters, as stored per reference slot                  *)

\* A row gm_params[ref] is [i32; 6]; it is held as the tuple of its six
\* coefficients, coefficient j of the program at position j + 1.
\* An IDENTITY model has 1 << WARPEDMODEL_PREC_BITS where j % 3 == 2.
GmIdentityRow == [k \in 1 .. 6 |-> IF (k - 1) % 3 = 2 THEN Pow2(WARPEDMODEL_PREC_BITS) ELSE 0]
GmZeroRow == [k \in 1 .. 6 |-> 0]

\* GlobalMotionParams::default() then the IDENTITY fill for LAST..ALTREF
GmIdentity == [r \in Slots |-> IF r >= LAST_FRAME THEN GmIdentityRow ELSE GmZeroRow]

\* a sample non-identity model: LAST_FRAME is a ROTZOOM
\* (gm_params[4] = -gm_params[3], gm_params[5] = gm_params[2])
GmSample == [GmIdentity EXCEPT ![LAST_FRAME] = <<64, -128, 65000, 100, -100, 65000>>]

----------------------------------------------------------------------------
(* RefFrameManager                                                         *)

RefFrameManager_new ==
    [ ref_valid       |-> [i \in Slots |-> FALSE],
      ref_frame_id    |-> [i \in Slots |-> 0],
      ref_frame_type  |-> [i \in Slots |-> 0],
      ref_order_hint  |-> [i \in Slots |-> 0],
      saved_gm_params |-> [i \in Slots |-> [r \in Slots |-> GmZeroRow]],
      decode_order    |-> 0,
      present_order   |-> 0,
      frame_buf       |-> [i \in Slots |-> I64_MIN] ]

\* Option<T>: None is the empty tuple, Some(x) the tuple of x
None == <<>>
Some(x) == <<x>>
is_none(o) == o = <<>>
unwrap(o) == o[1]

Sequence_new == [sh |-> None, rfman |-> RefFrameManager_new]

\* mutant: the two tests of the first branch joined by && instead of ||
ref_frame_id_expired_and(f, cur, thr, diff_len) ==
    IF cur > shl1_u16(diff_len)
    THEN f > cur /\ f < cur - shl1_u16(diff_len)
    ELSE f > cur /\ f < thr

\* av1.rs 74-86: the test that invalidates a slot holding frame id f; thr is
\* the u16 value of (1 << id_len) + current_frame_id - (1 << diff_len)
ref_frame_id_expired(f, cur, thr, diff_len) ==
    IF cur > shl1_u16(diff_len)
    THEN f > cur \/ f < cur - shl1_u16(diff_len)
    ELSE f > cur /\ f < thr

\* One iteration of the loop of mark_ref_frames, for slot i.  st is
\* [rfman, panic]; an overflowing u16 expression panics in a debug build the
\* moment it is evaluated and wraps in a release build.
mark_ref_frames_slot(st, i, id_len, diff_len, cur, bld) ==
    LET rf == st.rfman
        f == rf.ref_frame_id[i]
        big == cur > shl1_u16(diff_len)
        \* (1 << id_len) + current_frame_id - (1 << diff_len), left to right
        sum == shl1_u16(id_len) + cur
        thr == (((sum % U16_RANGE) + U16_RANGE) - shl1_u16(diff_len)) % U16_RANGE
        thr_overflows == \/ shl1_u16_overflows(id_len)
                         \/ sum >= U16_RANGE
                         \/ shl1_u16_overflows(diff_len)
                         \/ (sum % U16_RANGE) < shl1_u16(diff_len)
        \* the second operand of && is evaluated only when the first holds
        overflow == \/ shl1_u16_overflows(diff_len)
                    \/ (~big /\ f > cur /\ thr_overflows)
    IN  IF st.panic THEN st
        ELSE IF bld = "debug" /\ overflow THEN [st EXCEPT !.panic = TRUE]
        ELSE IF ref_frame_id_expired(f, cur, thr, diff_len)
             THEN [st EXCEPT !.rfman.ref_valid[i] = FALSE]
             ELSE st

RECURSIVE mark_ref_frames_loop(_, _, _, _, _, _)
mark_ref_frames_loop(st, i, id_len, diff_len, cur, bld) ==
    IF i = NUM_REF_FRAMES THEN st
    ELSE mark_ref_frames_loop(mark_ref_frames_slot(st, i, id_len, diff_len, cur, bld),
                              i + 1, id_len, diff_len, cur, bld)

\* RefFrameManager::mark_ref_frames(id_len, sh, fh): [rfman, panic]
mark_ref_frames(rf, id_len, sh, fh, bld) ==
    mark_ref_frames_loop([rfman |-> rf, panic |-> FALSE], 0, id_len,
                         sh.delta_frame_id_length, fh.current_frame_id, bld)

\* RefFrameManager::output_process
output_process(rf, fh) == [rf EXCEPT !.present_order = rf.present_order + 1]

\* mutant: every slot written, whatever refresh_frame_flags holds
update_process_slot_unflagged(rf, i, fh) ==
    [rf EXCEPT !.ref_valid[i] = TRUE,
               !.ref_frame_id[i] = fh.current_frame_id,
               !.ref_frame_type[i] = fh.frame_type,
               !.ref_order_hint[i] = fh.order_hint,
               !.frame_buf[i] = rf.decode_order]

\* mutant: a refreshed slot made valid without its frame_buf written
update_process_slot_unbuffered(rf, i, fh) ==
    IF Bit(fh.refresh_frame_flags, i) = 1
    THEN [rf EXCEPT !.ref_valid[i] = TRUE,
                    !.ref_frame_id[i] = fh.current_frame_id,
                    !.ref_frame_type[i] = fh.frame_type,
                    !.ref_order_hint[i] = fh.order_hint]
    ELSE rf

\* the body of the loop of update_process for slot i
update_process_slot(rf, i, fh) ==
    IF Bit(fh.refresh_frame_flags, i) = 1
    THEN [rf EXCEPT !.ref_valid[i] = TRUE,
                    !.ref_frame_id[i] = fh.current_frame_id,
                    !.ref_frame_type[i] = fh.frame_type,
                    !.ref_order_hint[i] = fh.order_hint,
                    !.saved_gm_params[i] =
                        [r \in Slots |-> IF r >= LAST_FRAME /\ r <= ALTREF_FRAME
                                         THEN fh.gm_params[r]
                                         ELSE rf.saved_gm_params[i][r]],
                    !.frame_buf[i] = rf.decode_order]
    ELSE rf

RECURSIVE update_process_loop(_, _, _)
update_process_loop(rf, i, fh) ==
    IF i = NUM_REF_FRAMES THEN rf
    ELSE update_process_loop(update_process_slot(rf, i, fh), i + 1, fh)

\* mutant: decode_order incremented before the slots are written
update_process_early(rf, fh) ==
    update_process_loop([rf EXCEPT !.decode_order = rf.decode_order + 1], 0, fh)

\* RefFrameManager::update_process
update_process(rf, fh) ==
    LET r == update_process_loop(rf, 0, fh)
    IN  [r EXCEPT !.decode_order = r.decode_order + 1]

----------------------------------------------------------------------------
(* get_relative_dist                                                       *)

\* x & y on i32 for a mask 0 <= y < 2^k: bit i of the two's complement
\* representation of x is (x floor-div 2^i) mod 2
RECURSIVE BitAndLow(_, _, _)
BitAndLow(x, y, k) ==
    IF k = 0 THEN 0
    ELSE BitAndLow(x, y, k - 1) + Bit(x, k - 1) * Bit(y, k - 1) * Pow2(k - 1)

\* the widest mask get_relative_dist uses is m = 1 << 7
BitAnd(x, y) == BitAndLow(x, y, 8)

\* mutant: m taken as 1 << order_hint_bits
get_relative_dist_wide(a, b, sh) ==
    IF ~sh.enable_order_hint THEN 0
    ELSE LET diff == a - b
             m == Pow2(sh.order_hint_bits)
         IN  BitAnd(diff, m - 1) - BitAnd(diff, m)

\* mutant: the difference taken as b - a
get_relative_dist_swapped(a, b, sh) ==
    IF ~sh.enable_order_hint THEN 0
    ELSE LET diff == b - a
             m == Pow2(sh.order_hint_bits - 1)
         IN  BitAnd(diff, m - 1) - BitAnd(diff, m)

get_relative_dist(a, b, sh) ==
    IF ~sh.enable_order_hint THEN 0
    ELSE LET diff == a - b
             m == Pow2(sh.order_hint_bits - 1)
         IN  BitAnd(diff, m - 1) - BitAnd(diff, m)

----------------------------------------------------------------------------
(* Specification SpecDist: get_relative_dist on every pair of order hints  *)

\* order_hint_bits is f(3) + 1 when enable_order_hint, else 0 (obu.rs:1761)
DistSeqHeaders ==
    {[enable_order_hint |-> TRUE, order_hint_bits |-> n] : n \in 1 .. 8}
    \cup {[enable_order_hint |-> FALSE, order_hint_bits |-> 0]}

\* order hints are read with f(order_hint_bits); with hints disabled the
\* arguments are arbitrary small values
DistHints(sh) == IF sh.enable_order_hint THEN 0 .. (Pow2(sh.order_hint_bits) - 1) ELSE 0 .. 15

NoStats == [decoded |-> 0, shown |-> 0]

DistInit ==
    /\ build \in Builds
    /\ config = [verbose |-> 0]
    /\ pc = "run"
    /\ seq = Sequence_new
    /\ stats = NoStats
    /\ \E sh \in DistSeqHeaders : \E a \in DistHints(sh), b \in DistHints(sh) :
          last = [op |-> "input", a |-> a, b |-> b, sh |-> sh]

DistApply ==
    /\ last.op = "input"
    /\ last' = [op |-> "get_relative_dist", a |-> last.a, b |-> last.b, sh |-> last.sh,
                result |-> get_relative_dist(last.a, last.b, last.sh)]
    /\ UNCHANGED <<build, config, pc, seq, stats>>

DistNext == DistApply

SpecDist == DistInit /\ [][DistNext]_vars

----------------------------------------------------------------------------
(* Specification SpecRfm: the methods of RefFrameManager called on a       *)
(* manager made by RefFrameManager::new, with sample frame headers         *)

\* frames published before the run stops
MaxDecode == 2
\* frames presented before the run stops
MaxPresent == 2

\* the fields of a FrameHeader that the manager reads
FrameHeaderOf(id, type, hint, flags, gm) ==
    [ current_frame_id    |-> id,
      frame_type          |-> type,
      order_hint          |-> hint,
      refresh_frame_flags |-> flags,
      gm_params           |-> gm ]

\* sample (current_frame_id, frame_type, order_hint, gm_params)
RfmAttrs ==
    { <<1, KEY_FRAME, 0, GmIdentity>>,
      <<6, INTER_FRAME, 5, GmSample>>,
      <<6, SWITCH_FRAME, 0, GmSample>>,
      <<1, INTRA_ONLY_FRAME, 5, GmIdentity>> }

\* sample refresh_frame_flags: none, two slots, slots 1 and 7, all
RfmFlags == {0, 5, 130, 255}

RfmFrameHeaders ==
    { FrameHeaderOf(t[1], t[2], t[3], fl, t[4]) : t \in RfmAttrs, fl \in RfmFlags }

RfmInit ==
    /\ build \in Builds
    /\ config = [verbose |-> 0]
    /\ pc = "run"
    /\ seq = Sequence_new
    /\ stats = NoStats
    /\ last = [op |-> "new"]

RfmUpdate ==
    /\ pc = "run"
    /\ seq.rfman.decode_order < MaxDecode
    /\ \E fh \in RfmFrameHeaders :
          /\ seq' = [seq EXCEPT !.rfman = update_process(seq.rfman, fh)]
          /\ last' = [op |-> "update_process", fh |-> fh]
    /\ UNCHANGED <<build, config, pc, stats>>

RfmOutput ==
    /\ pc = "run"
    /\ seq.rfman.present_order < MaxPresent
    /\ \E fh \in RfmFrameHeaders :
          /\ seq' = [seq EXCEPT !.rfman = output_process(seq.rfman, fh)]
          /\ last' = [op |-> "output_process"]
    /\ UNCHANGED <<build, config, pc, stats>>

RfmNext == RfmUpdate \/ RfmOutput

SpecRfm == RfmInit /\ [][RfmNext]_vars

----------------------------------------------------------------------------
(* Specification SpecMark: mark_ref_frames on managers holding frames with *)
(* sample frame ids, called the way parse_frame_header calls it            *)

\* sequence headers with frame ids: (delta_frame_id_length,
\* additional_frame_id_length) = (2, 1), (4, 4), (15, 1): id_len 3, 8, 16
MarkSeqHeaders ==
    { [frame_id_numbers_present_flag |-> TRUE,
       delta_frame_id_length |-> p[1],
       additional_frame_id_length |-> p[2]] : p \in {<<2, 1>>, <<4, 4>>, <<15, 1>>} }

\* id_len as parse_frame_header computes it (obu.rs:1789)
IdLenOf(sh) ==
    IF sh.frame_id_numbers_present_flag
    THEN sh.additional_frame_id_length + sh.delta_frame_id_length
    ELSE 0

\* current_frame_id is read with f(id_len): every 3-bit id, and ids below,
\* at and above 1 << diff_len for id_len 8 and 16
MarkCurrentIds(id_len) ==
    IF id_len = 3 THEN 0 .. 7
    ELSE IF id_len = 8 THEN {5, 16, 100}
    ELSE {5, 32768, 40000}

\* the frames published before: every 3-bit frame id and one 8-bit id into
\* slot 0, and frame ids at and around the window bounds of the larger
\* lengths into slots 1, 2
MarkSmallIds == (0 .. 7) \cup {84}
MarkLargeIds == {10, 85, 100, 245, 32773, 40000}

MarkFrameHeaders ==
    { FrameHeaderOf(id, INTER_FRAME, 0, 1, GmIdentity) : id \in MarkSmallIds }
    \cup { FrameHeaderOf(id, INTER_FRAME, 0, 6, GmIdentity) : id \in MarkLargeIds }

MarkInit == RfmInit

MarkUpdate ==
    /\ pc = "run"
    /\ seq.rfman.decode_order < MaxDecode
    /\ \E fh \in MarkFrameHeaders :
          /\ seq' = [seq EXCEPT !.rfman = update_process(seq.rfman, fh)]
          /\ last' = [op |-> "update_process", fh |-> fh]
    /\ UNCHANGED <<build, config, pc, stats>>

MarkRefFrames ==
    /\ pc = "run"
    /\ \E sh \in MarkSeqHeaders : \E cur \in MarkCurrentIds(IdLenOf(sh)) :
          LET r == mark_ref_frames(seq.rfman, IdLenOf(sh), sh,
                                   [current_frame_id |-> cur], build)
          IN  /\ seq' = [seq EXCEPT !.rfman = r.rfman]
              /\ pc' = IF r.panic THEN "panic" ELSE "run"
              /\ last' = [op |-> "mark_ref_frames", id_len |-> IdLenOf(sh),
                          diff_len |-> sh.delta_frame_id_length,
                          current_frame_id |-> cur]
    /\ UNCHANGED <<build, config, stats>>

MarkNext == MarkUpdate \/ MarkRefFrames

SpecMark == MarkInit /\ [][MarkNext]_vars

----------------------------------------------------------------------------
(* OBU payloads and the bit reader                                         *)
(*                                                                         *)
(* A payload is the list of the values of its syntax elements, and avail,  *)
(* the number of syntax elements its bytes hold: BitReader::f returns None *)
(* on the first element past avail, and the `?` of the caller returns None *)
(* from the parser.  A sub-syntax whose values reach no state of the       *)
(* driver (color_config(), frame_size(), tile_info(), ...) is one element. *)

OBU_SEQUENCE_HEADER == 1
OBU_TEMPORAL_DELIMITER == 2
OBU_FRAME_HEADER == 3
OBU_TILE_GROUP == 4
OBU_METADATA == 5
OBU_FRAME == 6
OBU_REDUNDANT_FRAME_HEADER == 7
OBU_TILE_LIST == 8
OBU_PADDING == 15
SELECT_SCREEN_CONTENT_TOOLS == 2
SELECT_INTEGER_MV == 2

BitReader_new(avail) == [res |-> "run", pos |-> 0, avail |-> avail]

\* one br.f(n)? with n > 0: the element is read, or the parser returns None
br_f(br) ==
    IF br.res # "run" THEN br
    ELSE IF br.pos < br.avail THEN [br EXCEPT !.pos = br.pos + 1]
    ELSE [br EXCEPT !.res = "None"]

RECURSIVE br_fn(_, _)
br_fn(br, k) == IF k = 0 THEN br ELSE br_fn(br_f(br), k - 1)

\* br.f(n)? where n may be 0: reading no bit never fails
br_f_bits(br, n) == IF n = 0 THEN br ELSE br_f(br)

\* assert!(..) that fails, unimplemented!(..): the process panics
panic_if(br, cond) ==
    IF br.res = "run" /\ cond THEN [br EXCEPT !.res = "panic"] ELSE br

\* a parser returning None on a condition of the data read
none_if(br, cond) ==
    IF br.res = "run" /\ cond THEN [br EXCEPT !.res = "None"] ELSE br

trailing_bits(br, ok) == none_if(br_f(br), ~ok)

parse_timing_info(br, p) == panic_if(br_fn(br, 3), p.equal_picture_interval)

----------------------------------------------------------------------------
(* parse_sequence_header                                                   *)

\* the SequenceHeader a complete parse of payload p returns
SequenceHeaderOf(p) ==
    LET reduced == p.reduced_still_picture_header
        ids == ~reduced /\ p.frame_id_numbers_present_flag
        hints == ~reduced /\ p.enable_order_hint
        sct == IF reduced \/ p.seq_choose_screen_content_tools
               THEN SELECT_SCREEN_CONTENT_TOOLS
               ELSE p.seq_force_screen_content_tools
    IN  [ seq_profile |-> p.seq_profile,
          reduced_still_picture_header |-> reduced,
          decoder_model_info_present_flag |->
              ~reduced /\ p.timing_info_present_flag
                       /\ p.decoder_model_info_present_flag,
          equal_picture_interval |->
              ~reduced /\ p.timing_info_present_flag /\ p.equal_picture_interval,
          frame_id_numbers_present_flag |-> ids,
          delta_frame_id_length |-> IF ids THEN p.delta_frame_id_length_minus_2 + 2 ELSE 0,
          additional_frame_id_length |->
              IF ids THEN p.additional_frame_id_length_minus_1 + 1 ELSE 0,
          enable_warped_motion |-> ~reduced /\ p.enable_warped_motion,
          enable_order_hint |-> hints,
          enable_ref_frame_mvs |-> hints /\ p.enable_ref_frame_mvs,
          seq_force_screen_content_tools |-> sct,
          seq_force_integer_mv |->
              IF reduced \/ sct = 0 \/ p.seq_choose_integer_mv
              THEN SELECT_INTEGER_MV
              ELSE p.seq_force_integer_mv,
          order_hint_bits |-> IF hints THEN p.order_hint_bits_minus_1 + 1 ELSE 0,
          film_grain_params_present |-> p.film_grain_params_present ]

\* obu.rs 1674-1701: timing info, decoder model, the operating points
sequence_header_operating_points(br, p) ==
    LET t0 == br_f(br)
        t1 == IF p.timing_info_present_flag
              THEN panic_if(br_f(parse_timing_info(t0, p)),
                            p.decoder_model_info_present_flag)
              ELSE t0
        t2 == panic_if(br_fn(t1, 2), p.operating_points_cnt_minus_1 + 1 # 1)
        t3 == br_fn(t2, 2)
        t4 == IF p.seq_level_idx > 7 THEN br_f(t3) ELSE t3
    IN  panic_if(t4, p.initial_display_delay_present_flag)

\* obu.rs 1733-1765: the tools of a sequence that is not a reduced still picture
sequence_header_tools(br, p) ==
    LET sh == SequenceHeaderOf(p)
        t0 == br_fn(br, 5)
        t1 == IF p.enable_order_hint THEN br_fn(t0, 2) ELSE t0
        t2 == br_f(t1)
        t3 == IF p.seq_choose_screen_content_tools THEN t2 ELSE br_f(t2)
        t4 == IF sh.seq_force_screen_content_tools > 0
              THEN (IF p.seq_choose_integer_mv THEN br_f(t3) ELSE br_fn(t3, 2))
              ELSE t3
    IN  IF p.enable_order_hint THEN br_f(t4) ELSE t4

parse_sequence_header(p) ==
    LET reduced == p.reduced_still_picture_header
        sh == SequenceHeaderOf(p)
        b1 == br_fn(BitReader_new(p.avail), 3)
        b2 == IF reduced THEN br_f(b1) ELSE sequence_header_operating_points(b1, p)
        b3 == br_fn(b2, 4)
        b4 == IF reduced THEN b3 ELSE br_f(b3)
        b5 == IF sh.frame_id_numbers_present_flag THEN br_fn(b4, 2) ELSE b4
        b6 == br_fn(b5, 3)
        b7 == IF reduced THEN b6 ELSE sequence_header_tools(b6, p)
        b8 == br_fn(b7, 3)
        b9 == br_fn(b8, 2)
        b10 == trailing_bits(b9, p.trailing_ok)
    IN  [res |-> IF b10.res = "run" THEN "Some" ELSE b10.res, sh |-> sh]

----------------------------------------------------------------------------
(* parse_frame_header                                                      *)
(*                                                                         *)
(* The parse is a chain of steps over a record st: the reader (res, pos,   *)
(* avail), the header fh being filled, and rfman, the manager the caller   *)
(* passed by mutable reference.  A step does nothing once res is not "run" *)
(* (the function has returned, or the process has panicked).               *)

FrameHeader_default ==
    [ show_existing_frame |-> FALSE, frame_to_show_map_idx |-> 0,
      frame_type |-> 0, frame_is_intra |-> FALSE,
      show_frame |-> FALSE, showable_frame |-> FALSE,
      error_resilient_mode |-> FALSE, disable_cdf_update |-> FALSE,
      allow_screen_content_tools |-> FALSE, force_integer_mv |-> FALSE,
      current_frame_id |-> 0, frame_size_override_flag |-> FALSE,
      order_hint |-> 0, primary_ref_frame |-> 0, refresh_frame_flags |-> 0,
      ref_frame_idx |-> [i \in 0 .. (REFS_PER_FRAME - 1) |-> 0],
      gm_params |-> [r \in Slots |-> GmZeroRow] ]

all_frames == Pow2(NUM_REF_FRAMES) - 1

\* mutant: every shown-again frame refreshing all the slots
show_existing_frame_header_refresh(st, p, sh) ==
    LET idx == p.frame_to_show_map_idx
        b1 == br_f(st)
        b2 == IF sh.frame_id_numbers_present_flag THEN br_f_bits(b1, IdLenOf(sh)) ELSE b1
    IN  IF b2.res # "run" THEN b2
        ELSE [b2 EXCEPT !.res = "Some",
                        !.fh.show_existing_frame = TRUE,
                        !.fh.frame_to_show_map_idx = idx,
                        !.fh.frame_type = st.rfman.ref_frame_type[idx],
                        !.fh.refresh_frame_flags = all_frames]

\* obu.rs 1806-1821: a header that shows an existing frame
show_existing_frame_header(st, p, sh) ==
    LET idx == p.frame_to_show_map_idx
        type == st.rfman.ref_frame_type[idx]
        b1 == br_f(st)
        b2 == panic_if(b1, sh.decoder_model_info_present_flag
                           /\ ~sh.equal_picture_interval)
        b3 == IF sh.frame_id_numbers_present_flag THEN br_f_bits(b2, IdLenOf(sh)) ELSE b2
        b4 == panic_if(b3, sh.film_grain_params_present)
    IN  IF b4.res # "run" THEN b4
        ELSE [b4 EXCEPT !.res = "Some",
                        !.fh.show_existing_frame = TRUE,
                        !.fh.frame_to_show_map_idx = idx,
                        !.fh.frame_type = type,
                        !.fh.refresh_frame_flags =
                            IF type = KEY_FRAME THEN all_frames ELSE 0]

\* obu.rs 1823-1841: frame_type, show_frame, showable_frame, error_resilient_mode
frame_type_and_show(st, p, sh) ==
    LET forced == p.frame_type = SWITCH_FRAME
                  \/ (p.frame_type = KEY_FRAME /\ p.show_frame)
        b1 == br_fn(st, 2)
        b2 == panic_if(b1, p.show_frame /\ sh.decoder_model_info_present_flag
                           /\ ~sh.equal_picture_interval)
        b3 == IF p.show_frame THEN b2 ELSE br_f(b2)
        b4 == IF forced THEN b3 ELSE br_f(b3)
    IN  IF b4.res # "run" THEN b4
        ELSE [b4 EXCEPT !.fh.frame_type = p.frame_type,
                        !.fh.frame_is_intra = p.frame_type = INTRA_ONLY_FRAME
                                              \/ p.frame_type = KEY_FRAME,
                        !.fh.show_frame = p.show_frame,
                        !.fh.showable_frame =
                            IF p.show_frame THEN p.frame_type # KEY_FRAME
                            ELSE p.showable_frame,
                        !.fh.error_resilient_mode =
                            forced \/ p.error_resilient_mode]

\* obu.rs 1797-1842
uncompressed_header_start(st, p, sh) ==
    IF st.res # "run" THEN st
    ELSE IF sh.reduced_still_picture_header
    THEN [st EXCEPT !.fh.show_existing_frame = FALSE,
                    !.fh.frame_type = KEY_FRAME,
                    !.fh.frame_is_intra = TRUE,
                    !.fh.show_frame = TRUE,
                    !.fh.showable_frame = FALSE]
    ELSE LET b1 == br_f(st)
         IN  IF b1.res # "run" THEN b1
             ELSE IF p.show_existing_frame THEN show_existing_frame_header(b1, p, sh)
             ELSE frame_type_and_show(b1, p, sh)

\* mutant: a shown key frame leaves the reference slots as they are
key_frame_reset_skipped(st) == st

\* obu.rs 1843-1851: a shown key frame resets the reference slots
key_frame_reset(st) ==
    IF st.res = "run" /\ st.fh.frame_type = KEY_FRAME /\ st.fh.show_frame
    THEN [st EXCEPT !.rfman.ref_valid = [i \in Slots |-> FALSE],
                    !.rfman.ref_order_hint = [i \in Slots |-> 0]]
    ELSE st

\* obu.rs 1852-1869: disable_cdf_update, allow_screen_content_tools, force_integer_mv
screen_content_tools(st, p, sh) ==
    LET sct == IF sh.seq_force_screen_content_tools = SELECT_SCREEN_CONTENT_TOOLS
               THEN p.allow_screen_content_tools
               ELSE sh.seq_force_screen_content_tools # 0
        imv == IF sct
               THEN (IF sh.seq_force_integer_mv = SELECT_INTEGER_MV
                     THEN p.force_integer_mv
                     ELSE sh.seq_force_integer_mv # 0)
               ELSE FALSE
        b1 == br_f(st)
        b2 == IF sh.seq_force_screen_content_tools = SELECT_SCREEN_CONTENT_TOOLS
              THEN br_f(b1) ELSE b1
        b3 == IF sct /\ sh.seq_force_integer_mv = SELECT_INTEGER_MV
              THEN br_f(b2) ELSE b2
    IN  IF b3.res # "run" THEN b3
        ELSE [b3 EXCEPT !.fh.disable_cdf_update = p.disable_cdf_update,
                        !.fh.allow_screen_content_tools = sct,
                        !.fh.force_integer_mv = imv \/ st.fh.frame_is_intra]

\* obu.rs 1873: the manager after mark_ref_frames, which may panic
frame_id_marked(st, m) ==
    [st EXCEPT !.rfman = m.rfman, !.res = IF m.panic THEN "panic" ELSE "run"]

\* obu.rs 1872-1873: current_frame_id is read, and mark_ref_frames called
frame_id_read(st, id, sh, bld) ==
    IF st.res # "run" THEN st
    ELSE frame_id_marked([st EXCEPT !.fh.current_frame_id = id],
                         mark_ref_frames(st.rfman, IdLenOf(sh), sh,
                                         [st.fh EXCEPT !.current_frame_id = id], bld))

\* obu.rs 1870-1876: current_frame_id, and the slots it invalidates
frame_id(st, p, sh, bld) ==
    IF st.res # "run" THEN st
    ELSE IF ~sh.frame_id_numbers_present_flag
    THEN [st EXCEPT !.fh.current_frame_id = 0]
    ELSE frame_id_read(br_f_bits(st, IdLenOf(sh)),
                       p.current_frame_id % Pow2(IdLenOf(sh)), sh, bld)


\* obu.rs 1877-1900: frame_size_override_flag, order_hint, primary_ref_frame,
\* refresh_frame_flags
order_hint_and_refresh(st, p, sh) ==
    LET fh0 == st.fh
        forced == fh0.frame_type = SWITCH_FRAME
                  \/ (fh0.frame_type = KEY_FRAME /\ fh0.show_frame)
        independent == fh0.frame_is_intra \/ fh0.error_resilient_mode
        b1 == IF fh0.frame_type = SWITCH_FRAME \/ sh.reduced_still_picture_header
              THEN st ELSE br_f(st)
        b2 == br_f_bits(b1, sh.order_hint_bits)
        b3 == IF independent THEN b2 ELSE br_f(b2)
        b4 == panic_if(b3, sh.decoder_model_info_present_flag)
        b5 == IF forced THEN b4 ELSE br_f(b4)
    IN  IF b5.res # "run" THEN b5
        ELSE [b5 EXCEPT !.fh.frame_size_override_flag =
                            IF fh0.frame_type = SWITCH_FRAME THEN TRUE
                            ELSE IF sh.reduced_still_picture_header THEN FALSE
                            ELSE p.frame_size_override_flag,
                        !.fh.order_hint = p.order_hint % Pow2(sh.order_hint_bits),
                        !.fh.primary_ref_frame =
                            IF independent THEN PRIMARY_REF_NONE
                            ELSE p.primary_ref_frame,
                        !.fh.refresh_frame_flags =
                            IF forced THEN all_frames ELSE p.refresh_frame_flags]

\* obu.rs 1904-1907: ref_order_hint[i] is read, and a slot holding another
\* order hint is invalidated
ref_order_hint_slot(st, i, p, sh) ==
    LET b1 == br_f_bits(st, sh.order_hint_bits)
        hint == p.ref_order_hint[i] % Pow2(sh.order_hint_bits)
    IN  IF b1.res # "run" THEN b1
        ELSE IF hint # b1.rfman.ref_order_hint[i]
        THEN [b1 EXCEPT !.rfman.ref_valid[i] = FALSE]
        ELSE b1

RECURSIVE ref_order_hint_loop(_, _, _, _)
ref_order_hint_loop(st, i, p, sh) ==
    IF i = NUM_REF_FRAMES \/ st.res # "run" THEN st
    ELSE ref_order_hint_loop(ref_order_hint_slot(st, i, p, sh), i + 1, p, sh)

\* obu.rs 1901-1910
ref_order_hints(st, p, sh) ==
    IF /\ st.res = "run"
       /\ (~st.fh.frame_is_intra \/ st.fh.refresh_frame_flags # all_frames)
       /\ st.fh.error_resilient_mode /\ sh.enable_order_hint
    THEN ref_order_hint_loop(st, 0, p, sh)
    ELSE st

\* obu.rs 1912-1918, 1921-1927: frame_size(), render_size(), allow_intrabc
intra_frame_size(st, p) ==
    LET b1 == br_fn(st, 2)
    IN  IF st.fh.allow_screen_content_tools /\ ~p.use_superres THEN br_f(b1) ELSE b1

\* obu.rs 1951-1953, in u16: [value, overflow]
expected_frame_id(cur, id_len, delta_frame_id) ==
    LET m == shl1_u16(id_len)
        sum == cur + m
        diff == (sum % U16_RANGE) - delta_frame_id
    IN  [ value |-> (diff % U16_RANGE) % m,
          overflow |-> shl1_u16_overflows(id_len) \/ sum >= U16_RANGE \/ diff < 0 ]

\* obu.rs 1941-1963: one reference of an inter frame, with the two
\* conformance requirements the parser asserts
ref_frame_slot(st, i, p, sh, bld) ==
    LET idx == p.ref_frame_idx[i]
        b1 == panic_if(br_f(st), ~st.rfman.ref_valid[idx])
        e == expected_frame_id(st.fh.current_frame_id, IdLenOf(sh),
                               (p.delta_frame_id_minus_1
                                    % Pow2(sh.delta_frame_id_length)) + 1)
        b2 == IF sh.frame_id_numbers_present_flag
              THEN panic_if(panic_if(br_f(b1), bld = "debug" /\ e.overflow),
                            e.value # st.rfman.ref_frame_id[idx])
              ELSE b1
    IN  IF b2.res # "run" THEN b2 ELSE [b2 EXCEPT !.fh.ref_frame_idx[i] = idx]

RECURSIVE ref_frame_loop(_, _, _, _, _)
ref_frame_loop(st, i, p, sh, bld) ==
    IF i = REFS_PER_FRAME \/ st.res # "run" THEN st
    ELSE ref_frame_loop(ref_frame_slot(st, i, p, sh, bld), i + 1, p, sh, bld)

\* obu.rs 1929-1982: the references and the sizes of an inter or switch frame
inter_frame_refs(st, p, sh, bld) ==
    LET b1 == IF sh.enable_order_hint
              THEN panic_if(br_fn(br_f(st), IF p.frame_refs_short_signaling THEN 2 ELSE 0),
                            p.frame_refs_short_signaling)
              ELSE st
        b2 == ref_frame_loop(b1, 0, p, sh, bld)
        b3 == panic_if(b2, st.fh.frame_size_override_flag
                           /\ ~st.fh.error_resilient_mode)
        b4 == br_fn(b3, 2)
        b5 == IF st.fh.force_integer_mv THEN b4 ELSE br_f(b4)
        b6 == br_fn(b5, 2)
    IN  IF st.fh.error_resilient_mode \/ ~sh.enable_ref_frame_mvs
        THEN b6 ELSE br_f(b6)

\* obu.rs 1911-1984
frame_size_and_refs(st, p, sh, bld) ==
    IF st.res # "run" THEN st
    ELSE IF st.fh.frame_type = KEY_FRAME \/ st.fh.frame_type = INTRA_ONLY_FRAME
    THEN intra_frame_size(st, p)
    ELSE inter_frame_refs(st, p, sh, bld)

\* obu.rs 1441-1512: film_grain_params(), whose asserts on the counts read
\* end the process
parse_film_grain_params(st, p, sh) ==
    IF ~sh.film_grain_params_present
       \/ (~st.fh.show_frame /\ st.fh.showable_frame)
    THEN st
    ELSE panic_if(br_f(st), p.film_grain_asserts)

\* obu.rs 1997-2049: the rest of the header; of its values the manager
\* keeps the global motion parameters only
uncompressed_header_rest(st, p, sh) ==
    LET intra == st.fh.frame_is_intra
        b1 == IF sh.reduced_still_picture_header \/ st.fh.disable_cdf_update
              THEN st ELSE br_f(st)
        b2 == br_fn(b1, 9)
        b3 == IF intra THEN b2 ELSE br_f(b2)
        b4 == br_f(b3)
        b5 == IF intra \/ st.fh.error_resilient_mode \/ ~sh.enable_warped_motion
              THEN b4 ELSE br_f(b4)
        b6 == br_f(b5)
        b7 == IF intra THEN b6 ELSE br_f(b6)
        b8 == parse_film_grain_params(b7, p, sh)
    IN  IF b8.res # "run" THEN b8
        ELSE [b8 EXCEPT !.res = "Some",
                        !.fh.gm_params = IF intra THEN GmIdentity ELSE p.gm_params]

\* obu.rs 1780-2052: the last step's record, of which res and fh are the
\* Option returned (or res is "panic") and rfman is the manager as the call
\* leaves it
parse_frame_header(p, sh, rfman, bld) ==
    LET s0 == [res |-> "run", pos |-> 0, avail |-> p.avail,
               fh |-> FrameHeader_default, rfman |-> rfman]
        s1 == panic_if(s0, IdLenOf(sh) > 16)
        s2 == uncompressed_header_start(s1, p, sh)
        s3 == key_frame_reset(s2)
        s4 == screen_content_tools(s3, p, sh)
        s5 == frame_id(s4, p, sh, bld)
        s6 == order_hint_and_refresh(s5, p, sh)
        s7 == ref_order_hints(s6, p, sh)
        s8 == frame_size_and_refs(s7, p, sh, bld)
        s9 == uncompressed_header_rest(s8, p, sh)
    IN  s9

----------------------------------------------------------------------------
(* process_obu, the stream driver's step on one OBU                        *)

NoEvent == [kind |-> "none"]

\* the result of process_obu: the Sequence as it leaves it, whether the
\* process goes on, and what the step did (result, the sequence header or
\* frame header parsed, the valid flags as parse_frame_header left them,
\* the frame line printed)
ObuResult(sq, res, sh, fh, rfman, event) ==
    [ seq |-> sq,
      pc |-> IF res = "panic" THEN "panic" ELSE "run",
      result |-> res, sh |-> sh, fh |-> fh,
      ref_valid_parsed |-> rfman.ref_valid,
      ref_order_hint_parsed |-> rfman.ref_order_hint,
      event |-> event ]

\* mutant: a new sequence header starting a fresh reference-frame manager
install_sequence_header_reset(sq, r) ==
    IF r.res = "Some" THEN [sh |-> Some(r.sh), rfman |-> RefFrameManager_new] ELSE sq

\* mutant: the Option returned by the parser stored as it is
install_sequence_header_option(sq, r) ==
    [sq EXCEPT !.sh = IF r.res = "Some" THEN Some(r.sh) ELSE None]

\* main.rs 41-48
install_sequence_header(sq, r) ==
    IF r.res = "Some" THEN [sq EXCEPT !.sh = Some(r.sh)] ELSE sq

\* main.rs 60-93: the line printed for a parsed frame header
frame_event(rfman, fh) ==
    IF ~fh.show_existing_frame
    THEN [ kind |-> "frame", decode_index |-> rfman.decode_order,
           refresh |-> fh.refresh_frame_flags,
           present_index |-> IF fh.show_frame THEN Some(rfman.present_order) ELSE None ]
    ELSE [ kind |-> "show_existing",
           decode_index |-> rfman.frame_buf[fh.frame_to_show_map_idx],
           refresh |-> Pow2(fh.frame_to_show_map_idx),
           present_index |-> Some(rfman.present_order) ]

\* mutant: update_process called for every parsed header
decode_frame_wrapup_update_all(rfman, fh) ==
    update_process(IF fh.show_frame \/ fh.show_existing_frame
                   THEN output_process(rfman, fh) ELSE rfman, fh)

\* mutant: output_process called for show_frame only
decode_frame_wrapup_show_frame_only(rfman, fh) ==
    LET shown == IF fh.show_frame THEN output_process(rfman, fh) ELSE rfman
    IN  IF ~fh.show_existing_frame THEN update_process(shown, fh) ELSE shown

\* main.rs 98-107
decode_frame_wrapup(rfman, fh) ==
    LET shown == IF fh.show_frame \/ fh.show_existing_frame
                 THEN output_process(rfman, fh) ELSE rfman
    IN  IF ~fh.show_existing_frame THEN update_process(shown, fh) ELSE shown

\* main.rs 41-48, past the call of the parser
sequence_header_parsed(sq, r) ==
    ObuResult(IF r.res = "panic" THEN sq ELSE install_sequence_header(sq, r),
              r.res, IF r.res = "Some" THEN Some(r.sh) ELSE None, None,
              sq.rfman, NoEvent)

\* main.rs 40-49
process_sequence_header_obu(sq, p) ==
    sequence_header_parsed(sq, parse_sequence_header(p))

\* mutant: the manager put back as it was when the parser fails
frame_header_parsed_rollback(sq, r) ==
    IF r.res = "Some"
    THEN ObuResult([sq EXCEPT !.rfman = decode_frame_wrapup(r.rfman, r.fh)],
                   "Some", None, Some(r.fh), r.rfman, frame_event(r.rfman, r.fh))
    ELSE ObuResult(sq, r.res, None, None, r.rfman, NoEvent)

\* main.rs 59-108, past the call of the parser: a parsed header is
\* reported and wrapped up
frame_header_parsed(sq, r) ==
    IF r.res = "Some"
    THEN ObuResult([sq EXCEPT !.rfman = decode_frame_wrapup(r.rfman, r.fh)],
                   "Some", None, Some(r.fh), r.rfman, frame_event(r.rfman, r.fh))
    ELSE ObuResult([sq EXCEPT !.rfman = r.rfman], r.res, None, None,
                   r.rfman, NoEvent)

\* main.rs 57-108
parse_and_wrapup(sq, sh, p, bld) ==
    frame_header_parsed(sq, parse_frame_header(p, sh, sq.rfman, bld))

\* what SequenceHeader::default() holds
SequenceHeader_default ==
    [ seq_profile |-> 0, reduced_still_picture_header |-> FALSE,
      decoder_model_info_present_flag |-> FALSE, equal_picture_interval |-> FALSE,
      frame_id_numbers_present_flag |-> FALSE,
      delta_frame_id_length |-> 0, additional_frame_id_length |-> 0,
      enable_warped_motion |-> FALSE, enable_order_hint |-> FALSE,
      enable_ref_frame_mvs |-> FALSE, seq_force_screen_content_tools |-> 0,
      seq_force_integer_mv |-> 0, order_hint_bits |-> 0,
      film_grain_params_present |-> FALSE ]

\* mutant: a frame parsed against a default sequence header when none is installed
process_frame_obu_unguarded(sq, p, bld) ==
    parse_and_wrapup(sq, IF is_none(sq.sh) THEN SequenceHeader_default ELSE unwrap(sq.sh),
                     p, bld)

\* main.rs 50-109
process_frame_obu(sq, p, bld) ==
    IF is_none(sq.sh)
    THEN ObuResult(sq, "refused", None, None, sq.rfman, NoEvent)
    ELSE parse_and_wrapup(sq, unwrap(sq.sh), p, bld)

\* main.rs 119-143: a metadata OBU is parsed and, with -vv, printed; the
\* ITU-T T.35 print slices the first 7 payload bytes
process_metadata_obu(sq, p, cfg) ==
    ObuResult(sq,
              IF ~p.parsed THEN "None"
              ELSE IF cfg.verbose > 1 /\ p.itut_t35 /\ p.payload_len < 7 THEN "panic"
              ELSE "Some",
              None, None, sq.rfman, NoEvent)

\* main.rs 110-118
process_tile_list_obu(sq, p) ==
    ObuResult(sq, IF p.parsed THEN "Some" ELSE "None", None, None, sq.rfman, NoEvent)

\* main.rs 32-146
process_obu(sq, obu, cfg, bld) ==
    IF obu.obu_type = OBU_SEQUENCE_HEADER THEN process_sequence_header_obu(sq, obu.payload)
    ELSE IF obu.obu_type = OBU_FRAME_HEADER \/ obu.obu_type = OBU_FRAME
    THEN process_frame_obu(sq, obu.payload, bld)
    ELSE IF obu.obu_type = OBU_TILE_LIST THEN process_tile_list_obu(sq, obu.payload)
    ELSE IF obu.obu_type = OBU_METADATA THEN process_metadata_obu(sq, obu.payload, cfg)
    ELSE ObuResult(sq, "ignored", None, None, sq.rfman, NoEvent)

----------------------------------------------------------------------------
(* Specification Spec: process_obu driven from a fresh Sequence over       *)
(* sample OBUs                                                             *)

\* sequence_header_obu() payloads: order hints of 3 bits and no frame ids;
\* frame ids of 8 bits with a delta of 4 bits; a reduced still picture; a
\* payload cut short; one with two operating points, which the parser
\* asserts against
SeqPayloadBase ==
    [ seq_profile |-> 0, reduced_still_picture_header |-> FALSE,
      timing_info_present_flag |-> FALSE, equal_picture_interval |-> FALSE,
      decoder_model_info_present_flag |-> FALSE,
      initial_display_delay_present_flag |-> FALSE,
      operating_points_cnt_minus_1 |-> 0, seq_level_idx |-> 0,
      frame_id_numbers_present_flag |-> FALSE,
      delta_frame_id_length_minus_2 |-> 2, additional_frame_id_length_minus_1 |-> 3,
      enable_warped_motion |-> FALSE, enable_order_hint |-> TRUE,
      enable_ref_frame_mvs |-> FALSE,
      seq_choose_screen_content_tools |-> TRUE, seq_force_screen_content_tools |-> 0,
      seq_choose_integer_mv |-> TRUE, seq_force_integer_mv |-> 0,
      order_hint_bits_minus_1 |-> 2, film_grain_params_present |-> FALSE,
      trailing_ok |-> TRUE, avail |-> 64 ]

SeqPayloads ==
    { SeqPayloadBase,
      [SeqPayloadBase EXCEPT !.seq_profile = 1, !.frame_id_numbers_present_flag = TRUE],
      [SeqPayloadBase EXCEPT !.seq_profile = 2, !.reduced_still_picture_header = TRUE],
      [SeqPayloadBase EXCEPT !.seq_profile = 1, !.avail = 10],
      [SeqPayloadBase EXCEPT !.operating_points_cnt_minus_1 = 1] }

\* frame_header_obu() payloads
FramePayloadBase ==
    [ show_existing_frame |-> FALSE, frame_to_show_map_idx |-> 0,
      frame_type |-> KEY_FRAME, show_frame |-> TRUE, showable_frame |-> FALSE,
      error_resilient_mode |-> FALSE, disable_cdf_update |-> FALSE,
      allow_screen_content_tools |-> FALSE, force_integer_mv |-> FALSE,
      current_frame_id |-> 100, frame_size_override_flag |-> FALSE,
      order_hint |-> 0, primary_ref_frame |-> 0, refresh_frame_flags |-> 255,
      ref_order_hint |-> [i \in Slots |-> 0],
      frame_refs_short_signaling |-> FALSE,
      ref_frame_idx |-> [i \in 0 .. (REFS_PER_FRAME - 1) |-> 0],
      delta_frame_id_minus_1 |-> 0, use_superres |-> FALSE,
      gm_params |-> GmIdentity, film_grain_asserts |-> FALSE, avail |-> 64 ]

\* a shown key frame; an inter frame on slot 0 written to slot 1
FramePayloadsFrame ==
    { FramePayloadBase,
      [FramePayloadBase EXCEPT !.frame_type = INTER_FRAME, !.current_frame_id = 101,
                               !.order_hint = 1, !.refresh_frame_flags = 2,
                               !.gm_params = GmSample] }

\* show-existing of slots 0 and 1; a shown key frame cut after show_frame;
\* an error-resilient intra-only frame, not shown, with other order hints
\* for the slots
FramePayloadsHeader ==
    { [FramePayloadBase EXCEPT !.show_existing_frame = TRUE],
      [FramePayloadBase EXCEPT !.show_existing_frame = TRUE, !.frame_to_show_map_idx = 1],
      [FramePayloadBase EXCEPT !.avail = 3],
      [FramePayloadBase EXCEPT !.frame_type = INTRA_ONLY_FRAME, !.show_frame = FALSE,
                               !.error_resilient_mode = TRUE, !.order_hint = 5,
                               !.refresh_frame_flags = 4, !.current_frame_id = 104,
                               !.ref_order_hint = [i \in Slots |-> 5]] }

\* an ITU-T T.35 metadata OBU of 3 payload bytes
MetadataPayloads ==
    { [parsed |-> TRUE, itut_t35 |-> TRUE, payload_len |-> 3],
      [parsed |-> FALSE, itut_t35 |-> TRUE, payload_len |-> 0] }

\* an obu_type value the AV1 syntax reserves
OBU_RESERVED == 9

Obus ==
    { [obu_type |-> OBU_SEQUENCE_HEADER, payload |-> p] : p \in SeqPayloads }
    \cup { [obu_type |-> OBU_FRAME, payload |-> p] : p \in FramePayloadsFrame }
    \cup { [obu_type |-> OBU_FRAME_HEADER, payload |-> p] : p \in FramePayloadsHeader }
    \cup { [obu_type |-> OBU_METADATA, payload |-> p] : p \in MetadataPayloads }
    \cup { [obu_type |-> OBU_TILE_LIST, payload |-> [parsed |-> b]] : b \in BOOLEAN }
    \cup { [obu_type |-> t, payload |-> None] :
               t \in {OBU_TEMPORAL_DELIMITER, OBU_TILE_GROUP,
                      OBU_REDUNDANT_FRAME_HEADER, OBU_PADDING, OBU_RESERVED} }

Verbosities == {0, 2}

Init ==
    /\ build \in Builds
    /\ config \in { [verbose |-> v] : v \in Verbosities }
    /\ pc = "run"
    /\ seq = Sequence_new
    /\ stats = NoStats
    /\ last = [op |-> "new"]

\* the counts of the frame headers parsed so far, after a step with result r
StatsAfter(r) ==
    LET parsed == r.result = "Some" /\ ~is_none(r.fh)
        fh == unwrap(r.fh)
    IN  [ decoded |-> stats.decoded
                      + (IF parsed /\ ~fh.show_existing_frame THEN 1 ELSE 0),
          shown |-> stats.shown
                    + (IF parsed /\ (fh.show_frame \/ fh.show_existing_frame)
                       THEN 1 ELSE 0) ]

\* the container loops of main.rs hand the next OBU to process_obu
ProcessObu ==
    /\ pc = "run"
    /\ \E obu \in Obus :
          \E r \in {process_obu(seq, obu, config, build)} :
          \E st \in {StatsAfter(r)} :
              /\ st.decoded <= MaxDecode
              /\ st.shown <= MaxPresent
              /\ seq' = r.seq
              /\ pc' = r.pc
              /\ stats' = st
              /\ last' = [ op |-> "process_obu", before |-> seq,
                           obu_type |-> obu.obu_type,
                           result |-> r.result, sh |-> r.sh,
                           fh |-> IF is_none(r.fh) THEN None
                                  ELSE Some([unwrap(r.fh) EXCEPT !.gm_params = None]),
                           ref_valid_parsed |-> r.ref_valid_parsed,
                           ref_order_hint_parsed |-> r.ref_order_hint_parsed,
                           event |-> r.event ]
    /\ UNCHANGED <<build, config>>

Next == ProcessObu

Spec == Init /\ [][Next]_vars

-----------------------------------------------------------------------------
(* parse_obu_header, leb128 and the per-frame OBU loop of parse_ivf_format  *)

\* A u32 is kept as its two 16-bit halves <<high, low>>, so that sums are
\* formed with the carry out of bit 31.
u32(n) == <<n \div U16_RANGE, n % U16_RANGE>>

u32_zero == u32(0)

u32_lt(a, b) == a[1] < b[1] \/ (a[1] = b[1] /\ a[2] < b[2])

\* a + b with the carry out of bit 31
u32_add(a, b) ==
    LET lo == a[2] + b[2]
        hi == a[1] + b[1] + (lo \div U16_RANGE)
    IN  [carry |-> hi >= U16_RANGE, value |-> <<hi % U16_RANGE, lo % U16_RANGE>>]

\* a - b for a >= b
u32_sub(a, b) ==
    LET lo == a[2] - b[2]
    IN  IF lo < 0 THEN <<a[1] - b[1] - 1, lo + U16_RANGE>> ELSE <<a[1] - b[1], lo>>

\* u32 a + b: a panic with overflow checks on, the wrapped sum without them
add_u32(a, b, bld) ==
    LET s == u32_add(a, b)
    IN  IF ~s.carry THEN [res |-> "Ok", value |-> s.value]
        ELSE IF bld = "debug" THEN [res |-> "panic", value |-> u32_zero]
        ELSE [res |-> "Ok", value |-> s.value]

\* the byte at offset pos of a source (pos counts from 0)
byte_at(bytes, pos) == bytes[pos + 1]

\* read_exact of one byte succeeds while the source holds a byte at pos
can_read(bytes, pos) == pos < Len(bytes)

\* the u64 value of leb128 as its eight 7-bit groups, lowest first
LebZero == [i \in 1 .. 8 |-> 0]

\* obu.rs 545: value < (1u64 << 32)
leb_fits_u32(value) == value[5] < 16 /\ \A i \in 6 .. 8 : value[i] = 0

\* obu.rs 546: value as u32 (the low 32 bits)
leb_as_u32(value) ==
    LET low28 == value[1] + value[2] * Pow2(7) + value[3] * Pow2(14) + value[4] * Pow2(21)
    IN  <<((low28 \div U16_RANGE) + (value[5] % 16) * Pow2(12)) % U16_RANGE,
          low28 % U16_RANGE>>

\* obu.rs 535-544: the loop over at most eight bytes, from byte i on
RECURSIVE leb128_loop(_, _, _, _)
leb128_loop(bytes, pos, i, value) ==
    IF i = 8 THEN [res |-> "Ok", len |-> 8, value |-> value]
    ELSE IF ~can_read(bytes, pos + i) THEN [res |-> "Err", len |-> i, value |-> value]
    ELSE LET leb128_byte == byte_at(bytes, pos + i)
             v == [value EXCEPT ![i + 1] = leb128_byte % 128]
         IN  IF leb128_byte < 128
             THEN [res |-> "Ok", len |-> i + 1, value |-> v]
             ELSE leb128_loop(bytes, pos, i + 1, v)

\* obu.rs 532-547: (Leb128Bytes, leb128()); the assert on the 64-bit value
\* panics in every build
leb128(bytes, pos) ==
    LET r == leb128_loop(bytes, pos, 0, LebZero)
    IN  [ res |-> IF r.res = "Ok" /\ ~leb_fits_u32(r.value) THEN "panic" ELSE r.res,
          len |-> r.len,
          value |-> leb_as_u32(r.value) ]

NoObu == [obu_type |-> 0, obu_extension_flag |-> FALSE, obu_has_size_field |-> FALSE,
          temporal_id |-> 0, spatial_id |-> 0, obu_size |-> u32_zero,
          header_len |-> u32_zero]

\* the outcome of parse_obu_header: its result, the Obu of an Ok result and
\* the number of bytes taken from the source
ObuHeaderResult(res, obu, consumed) == [res |-> res, obu |-> obu, consumed |-> consumed]

\* obu.rs 1633: obu_header_len + obu_size_len + obu_size, in u32
obu_size_check(obu_header_len, obu_size_len, obu_size, bld) ==
    LET s1 == add_u32(u32(obu_header_len), u32(obu_size_len), bld)
    IN  IF s1.res = "panic" THEN s1 ELSE add_u32(s1.value, obu_size, bld)

\* obu.rs 1620-1650: the size field, the check against sz and the Obu
obu_header_size(bytes, pos, sz, bld, b1, ext, obu_header_len) ==
    LET has_size == (b1 \div 2) % 2 = 1
        lb == IF has_size THEN leb128(bytes, pos + obu_header_len)
              ELSE IF u32_lt(sz, u32(obu_header_len))
                   THEN [res |-> "Err", len |-> 0, value |-> u32_zero]
                   ELSE [res |-> "Ok", len |-> 0, value |-> u32_sub(sz, u32(obu_header_len))]
        total == obu_size_check(obu_header_len, lb.len, lb.value, bld)
        consumed == obu_header_len + lb.len
    IN  IF lb.res # "Ok" THEN ObuHeaderResult(lb.res, NoObu, consumed)
        ELSE IF total.res = "panic" THEN ObuHeaderResult("panic", NoObu, consumed)
        ELSE IF u32_lt(sz, total.value) THEN ObuHeaderResult("Err", NoObu, consumed)
        ELSE ObuHeaderResult("Ok",
                 [ obu_type |-> (b1 \div 8) % 16,
                   obu_extension_flag |-> ext,
                   obu_has_size_field |-> has_size,
                   temporal_id |-> IF ext THEN (byte_at(bytes, pos + 1) \div 32) % 8 ELSE 0,
                   spatial_id |-> IF ext THEN (byte_at(bytes, pos + 1) \div 8) % 4 ELSE 0,
                   obu_size |-> lb.value,
                   header_len |-> u32(consumed) ],
                 consumed)

\* obu.rs 1598-1650
parse_obu_header(bytes, pos, sz, bld) ==
    IF ~can_read(bytes, pos) THEN ObuHeaderResult("Err", NoObu, 0)
    ELSE LET b1 == byte_at(bytes, pos)
             ext == (b1 \div 4) % 2 = 1
         IN  IF (b1 \div 128) % 2 # 0 THEN ObuHeaderResult("Err", NoObu, 1)
             ELSE IF ext /\ ~can_read(bytes, pos + 1) THEN ObuHeaderResult("Err", NoObu, 1)
             ELSE obu_header_size(bytes, pos, sz, bld, b1, ext, IF ext THEN 2 ELSE 1)

-----------------------------------------------------------------------------
(* Specification SpecLeb: leb128 applied to sample encodings               *)

\* n bytes of value b
Rep(b, n) == [i \in 1 .. n |-> b]

\* leb128_byte values: the smallest and largest group with and without the
\* continuation bit
LebBytes == {0, 1, 127, 128, 255}

\* every encoding of up to three bytes over LebBytes; 2^32 - 1 and 2^32 in
\* five bytes; eight- and nine-byte encodings
LebInputs ==
    UNION { [1 .. n -> LebBytes] : n \in 1 .. 3 }
    \cup { <<255, 255, 255, 255, 15>>, <<128, 128, 128, 128, 16>>,
           <<255, 255, 255, 255, 127>>, Rep(128, 4),
           Rep(128, 7) \o <<0>>, Rep(128, 7) \o <<1>>,
           Rep(128, 8), Rep(128, 9), Rep(255, 8), Rep(255, 9),
           <<129>> \o Rep(128, 7) \o <<0>>, Rep(128, 8) \o <<1>> }

LebInit ==
    /\ build \in Builds
    /\ config = [verbose |-> 0]
    /\ pc = "run"
    /\ seq \in { [bytes |-> b, pos |-> 0] : b \in LebInputs }
    /\ stats = NoStats
    /\ last = [op |-> "new"]

\* leb128(bs) on the source from its start
LebApply ==
    /\ pc = "run"
    /\ last.op = "new"
    /\ \E r \in {leb128(seq.bytes, seq.pos)} :
          /\ last' = [op |-> "leb128", res |-> r.res, len |-> r.len, value |-> r.value]
          /\ pc' = IF r.res = "panic" THEN "panic" ELSE "done"
          /\ seq' = [seq EXCEPT !.pos = seq.pos + r.len]
    /\ UNCHANGED <<build, config, stats>>

LebNext == LebApply

SpecLeb == LebInit /\ [][LebNext]_vars

-----------------------------------------------------------------------------
(* Specification SpecObu: the OBU loop of parse_ivf_format over one frame   *)

\* u32 a - b: a panic with overflow checks on, the wrapped difference without
sub_u32(a, b, bld) ==
    IF ~u32_lt(a, b) THEN [res |-> "Ok", value |-> u32_sub(a, b)]
    ELSE IF bld = "debug" THEN [res |-> "panic", value |-> u32_zero]
    ELSE [res |-> "Ok",
          value |-> u32_add(u32_add(a, <<U16_RANGE - 1 - b[1], U16_RANGE - 1 - b[2]>>).value,
                            u32(1)).value]

\* reader.seek(SeekFrom::Start(pos + off)): the offset, or the end of the
\* source when the offset lies beyond it (every read from there on fails)
seek_from(bytes, pos, off) ==
    IF off[1] = 0 /\ pos + off[2] <= Len(bytes) THEN pos + off[2] ELSE Len(bytes)

\* sample OBUs, header and payload: a temporal delimiter of size 0; a
\* sequence header of size 2; a frame with a two-byte size field; one with
\* an extension byte and a size; a frame and a frame with extension without
\* size field; one with the forbidden bit; sizes of 2^32 - 6 and 2^32 - 1;
\* a size of 2^32; a nine-byte size field; a size beyond the frame
ObuSamples ==
    { <<18, 0>>, <<10, 2, 0, 0>>, <<50, 129, 0, 0>>, <<54, 168, 1, 0>>,
      <<48, 0, 0>>, <<52, 168, 0>>, <<138, 0>>,
      <<10, 250, 255, 255, 255, 15>>, <<10, 255, 255, 255, 255, 15>>,
      <<10, 128, 128, 128, 128, 16>>, <<10>> \o Rep(128, 8) \o <<0>>,
      <<10, 5, 0>>, <<54>> }

\* the bytes of one IVF frame: one or two OBUs
ObuStreams == ObuSamples \cup { a \o b : a \in ObuSamples, b \in ObuSamples }

\* frame.size as the IVF frame header gives it: the length of the bytes
\* that follow, one less, one more
FrameSizes(bytes) == { Len(bytes) - 1, Len(bytes), Len(bytes) + 1 }

ObuInit ==
    /\ build \in Builds
    /\ config = [verbose |-> 0]
    /\ pc = "run"
    /\ \E bytes \in ObuStreams : \E size \in FrameSizes(bytes) :
          seq = [bytes |-> bytes, pos |-> 0, sz |-> u32(size), frame_size |-> u32(size)]
    /\ stats = NoStats
    /\ last = [op |-> "new"]

\* main.rs 200-203 after an Obu was returned: sz -= header_len + obu_size,
\* process_obu reads the payload, the reader seeks past the payload
ivf_obu_parsed(sq, r, bld) ==
    LET used == add_u32(r.obu.header_len, r.obu.obu_size, bld)
        left == sub_u32(sq.sz, used.value, bld)
    IN  IF used.res = "panic" \/ left.res = "panic"
        THEN [pc |-> "panic", seq |-> [sq EXCEPT !.pos = sq.pos + r.consumed]]
        ELSE [pc |-> "run",
              seq |-> [sq EXCEPT !.sz = left.value,
                                 !.pos = seek_from(sq.bytes, sq.pos + r.consumed,
                                                   r.obu.obu_size)]]

\* main.rs 195-204: one turn of the loop while sz > 0
IvfObu ==
    /\ pc = "run"
    /\ seq.sz # u32_zero
    /\ \E r \in {parse_obu_header(seq.bytes, seq.pos, seq.sz, build)} :
       \E n \in {IF r.res = "Ok" THEN ivf_obu_parsed(seq, r, build)
                 ELSE [pc |-> IF r.res = "panic" THEN "panic" ELSE "error",
                       seq |-> [seq EXCEPT !.pos = seq.pos + r.consumed]]} :
          /\ seq' = n.seq
          /\ pc' = n.pc
          /\ last' = [op |-> "parse_obu_header", res |-> r.res, obu |-> r.obu,
                      consumed |-> r.consumed, before |-> seq]
    /\ UNCHANGED <<build, config, stats>>

\* main.rs 195, 205: the loop ends at sz = 0 and the reader seeks to the
\* end of the frame
IvfFrameEnd ==
    /\ pc = "run"
    /\ seq.sz = u32_zero
    /\ pc' = "done"
    /\ seq' = [seq EXCEPT !.pos = seek_from(seq.bytes, 0, seq.frame_size)]
    /\ last' = [op |-> "frame_end", before |-> seq]
    /\ UNCHANGED <<build, config, stats>>

ObuNext == IvfObu \/ IvfFrameEnd

SpecObu == ObuInit /\ [][ObuNext]_vars

-----------------------------------------------------------------------------
(* BitReader over a byte source: read_bit, f(n), su(n), ns(n)               *)

\* bitio.rs 40-46: the reader over a source, nothing buffered
BitReader_over(bytes) == [bytes |-> bytes, pos |-> 0, bbuf |-> 0, bpos |-> 0]

\* mutant: the bits of a byte handed out lowest first
read_bit_lsb_first(br) ==
    IF br.bpos = 0 /\ br.pos >= Len(br.bytes) THEN [res |-> "None", bit |-> 0, br |-> br]
    ELSE LET b == IF br.bpos = 0
                  THEN [br EXCEPT !.bbuf = byte_at(br.bytes, br.pos),
                                  !.pos = br.pos + 1, !.bpos = 8]
                  ELSE br
         IN  [res |-> "Some", bit |-> Bit(b.bbuf, 8 - b.bpos),
              br |-> [b EXCEPT !.bpos = b.bpos - 1]]

\* bitio.rs 49-61
read_bit(br) ==
    IF br.bpos = 0 /\ br.pos >= Len(br.bytes) THEN [res |-> "None", bit |-> 0, br |-> br]
    ELSE LET b == IF br.bpos = 0
                  THEN [br EXCEPT !.bbuf = byte_at(br.bytes, br.pos),
                                  !.pos = br.pos + 1, !.bpos = 8]
                  ELSE br
         IN  [res |-> "Some", bit |-> Bit(b.bbuf, b.bpos - 1),
              br |-> [b EXCEPT !.bpos = b.bpos - 1]]

\* bitio.rs 68: (x << 1) | bit on u32, the bit shifted out of bit 31 dropped
u32_shl1_or(x, bit) ==
    <<(x[1] * 2 + (x[2] \div Pow2(15))) % U16_RANGE, (x[2] * 2 + bit) % U16_RANGE>>

\* bitio.rs 68: one turn of the loop of f, x = (x << 1) | read_bit()?
f_step(st) ==
    LET b == read_bit(st.br)
    IN  IF b.res = "None" THEN [res |-> "None", value |-> u32_zero, br |-> b.br]
        ELSE [res |-> "Some", value |-> u32_shl1_or(st.value, b.bit), br |-> b.br]

\* bitio.rs 67-69: the loop of f over the nbit bits still to read; each
\* turn's outcome is bound as the one element of a set
RECURSIVE f_loop(_, _)
f_loop(st, nbit) ==
    IF nbit = 0 \/ st.res = "None" THEN st
    ELSE CHOOSE r \in { f_loop(t, nbit - 1) : t \in {f_step(st)} } : TRUE

\* bitio.rs 64-71, with T = u32
BitReader_f(br, nbit) ==
    IF nbit > 32 THEN [res |-> "panic", value |-> u32_zero, br |-> br]
    ELSE f_loop([res |-> "Some", value |-> u32_zero, br |-> br], nbit)

\* a u32 below 2^31 as a number
u32_int(x) == x[1] * U16_RANGE + x[2]

\* bitio.rs 75-79 for 1 <= n <= 31: value -= 2 * sign_mask in i32; at
\* n = 31 the product 2 * sign_mask leaves the i32 range, a panic with
\* overflow checks on, and without them both it and the difference wrap
su_sign_extend(value, n, bld) ==
    IF value < Pow2(n - 1) THEN [res |-> "Some", value |-> value]
    ELSE IF n <= 30 THEN [res |-> "Some", value |-> value - Pow2(n)]
    ELSE IF bld = "debug" THEN [res |-> "panic", value |-> 0]
    ELSE [res |-> "Some", value |-> (value - Pow2(30)) - Pow2(30)]

\* bitio.rs 74-81 for 1 <= n <= 31
BitReader_su(br, n, bld) ==
    LET r == BitReader_f(br, n)
    IN  IF r.res # "Some" THEN [res |-> r.res, value |-> 0, br |-> r.br]
        ELSE LET s == su_sign_extend(u32_int(r.value), n, bld)
             IN  [res |-> s.res, value |-> s.value, br |-> r.br]

\* x >> 1 on u32
u32_shr1(x) == <<x[1] \div 2, (x[2] \div 2) + (x[1] % 2) * Pow2(15)>>

\* bitio.rs 97-103: the loop of floor_log2, s counting the shifts
RECURSIVE floor_log2_loop(_, _)
floor_log2_loop(x, s) ==
    IF x = u32_zero THEN s ELSE floor_log2_loop(u32_shr1(x), s + 1)

\* bitio.rs 96-104, for x >= 1
floor_log2(x) == floor_log2_loop(x, 0) - 1

\* 1 << w on u32: 2^w for w <= 31; at w = 32 a panic with overflow checks
\* on, and without them the shift count is taken modulo 32
shl_one_u32(w, bld) ==
    IF w <= 15 THEN [res |-> "Ok", value |-> <<0, Pow2(w)>>]
    ELSE IF w <= 31 THEN [res |-> "Ok", value |-> <<Pow2(w - 16), 0>>]
    ELSE IF bld = "debug" THEN [res |-> "panic", value |-> u32_zero]
    ELSE [res |-> "Ok", value |-> u32(1)]

\* bitio.rs 94: (v << 1) - m + extra_bit on u32
ns_long_form(v, m, extra_bit, bld) ==
    LET d == sub_u32(u32_shl1_or(v, 0), m, bld)
    IN  IF d.res = "panic" THEN d ELSE add_u32(d.value, u32(extra_bit), bld)

\* bitio.rs 88-94: v = f(w - 1), returned when below m, else one more bit
ns_read(br, m, w, bld) ==
    LET v == BitReader_f(br, w - 1)
        e == BitReader_f(v.br, 1)
        r == ns_long_form(v.value, m, e.value[2], bld)
    IN  IF v.res # "Some" THEN [res |-> v.res, value |-> u32_zero, br |-> v.br]
        ELSE IF u32_lt(v.value, m) THEN [res |-> "Some", value |-> v.value, br |-> v.br]
        ELSE IF e.res # "Some" THEN [res |-> e.res, value |-> u32_zero, br |-> e.br]
        ELSE IF r.res = "panic" THEN [res |-> "panic", value |-> u32_zero, br |-> e.br]
        ELSE [res |-> "Some", value |-> r.value, br |-> e.br]

\* bitio.rs 84-95, for n >= 1
BitReader_ns(br, n, bld) ==
    LET w == floor_log2(n) + 1
        p == shl_one_u32(w, bld)
        m == sub_u32(p.value, n, bld)
    IN  IF p.res = "panic" \/ m.res = "panic"
        THEN [res |-> "panic", value |-> u32_zero, br |-> br]
        ELSE ns_read(br, m.value, w, bld)

-----------------------------------------------------------------------------
(* Specification SpecBits: successive f, su and ns reads of a byte string   *)

\* byte strings of forty bits: mixed bits, all ones, rising nibbles
BitSources == { <<165, 60, 255, 0, 129>>, Rep(255, 5), <<18, 52, 86, 120, 154>> }

\* widths of f: none, single bits, within and across bytes, the full u32
FWidths == {0, 1, 3, 7, 8, 9, 16, 31, 32}

\* widths of su: the parser's su(1 + 6) and su(1 + bitsToRead), the
\* smallest, and those next to the i32 range
SuWidths == {1, 2, 7, 9, 30, 31}

\* arguments of ns: small ones, powers of two and their neighbours, and
\* values from 2^31 on
NsArgs == { u32(k) : k \in {1, 2, 3, 5, 6, 8, 200} }
          \cup { <<32768, 0>>, <<32768, 1>>, <<49152, 0>>, <<65535, 65535>> }

BitsInit ==
    /\ build \in Builds
    /\ config = [verbose |-> 0]
    /\ pc = "run"
    /\ seq \in { BitReader_over(b) : b \in BitSources }
    /\ stats = NoStats
    /\ last = [op |-> "new"]

\* the reader after a call and whether the process goes on
BitsAfter(r) ==
    /\ seq' = r.br
    /\ pc' = IF r.res = "panic" THEN "panic" ELSE "run"
    /\ UNCHANGED <<build, config, stats>>

ReadF ==
    /\ pc = "run"
    /\ \E nbit \in FWidths : \E r \in {BitReader_f(seq, nbit)} :
          /\ BitsAfter(r)
          /\ last' = [op |-> "f", nbit |-> nbit, res |-> r.res, value |-> r.value,
                      before |-> seq]

ReadSu ==
    /\ pc = "run"
    /\ \E nbit \in SuWidths : \E r \in {BitReader_su(seq, nbit, build)} :
          /\ BitsAfter(r)
          /\ last' = [op |-> "su", nbit |-> nbit, res |-> r.res, svalue |-> r.value,
                      before |-> seq]

ReadNs ==
    /\ pc = "run"
    /\ \E arg \in NsArgs : \E r \in {BitReader_ns(seq, arg, build)} :
          /\ BitsAfter(r)
          /\ last' = [op |-> "ns", n |-> arg, res |-> r.res, value |-> r.value,
                      before |-> seq]

BitsNext == ReadF \/ ReadSu \/ ReadNs

SpecBits == BitsInit /\ [][BitsNext]_vars

-----------------------------------------------------------------------------
(* parse_tile_info over the BitReader                                      *)

MAX_TILE_WIDTH == 4096
MAX_TILE_AREA == 9437184
MAX_TILE_ROWS == 64
MAX_TILE_COLS == 64

Min(a, b) == IF a < b THEN a ELSE b
Max(a, b) == IF a > b THEN a ELSE b

\* obu.rs 525-530: (MiCols, MiRows)
compute_image_size(fs) ==
    [mi_cols |-> 2 * ((fs.frame_width + 7) \div 8),
     mi_rows |-> 2 * ((fs.frame_height + 7) \div 8)]

\* obu.rs 797-803: the loop of tile_log2 from k on
RECURSIVE tile_log2_loop(_, _, _)
tile_log2_loop(blk_size, target, k) ==
    IF blk_size * Pow2(k) < target THEN tile_log2_loop(blk_size, target, k + 1) ELSE k

tile_log2(blk_size, target) == tile_log2_loop(blk_size, target, 0)

\* obu.rs 805-826: the superblock counts and the bounds on the tile log2s
tile_limits(sh, fs) ==
    LET mi == compute_image_size(fs)
        sb_cols == IF sh.use_128x128_superblock
                   THEN (mi.mi_cols + 31) \div 32 ELSE (mi.mi_cols + 15) \div 16
        sb_rows == IF sh.use_128x128_superblock
                   THEN (mi.mi_rows + 31) \div 32 ELSE (mi.mi_rows + 15) \div 16
        sb_shift == IF sh.use_128x128_superblock THEN 5 ELSE 4
        sb_size == sb_shift + 2
        max_tile_width_sb == MAX_TILE_WIDTH \div Pow2(sb_size)
        max_tile_area_sb == MAX_TILE_AREA \div Pow2(2 * sb_size)
        min_log2_tile_cols == tile_log2(max_tile_width_sb, sb_cols)
    IN  [ sb_cols |-> sb_cols, sb_rows |-> sb_rows,
          max_tile_width_sb |-> max_tile_width_sb,
          min_log2_tile_cols |-> min_log2_tile_cols,
          max_log2_tile_cols |-> tile_log2(1, Min(sb_cols, MAX_TILE_COLS)),
          max_log2_tile_rows |-> tile_log2(1, Min(sb_rows, MAX_TILE_ROWS)),
          min_log2_tiles |-> Max(min_log2_tile_cols,
                                 tile_log2(max_tile_area_sb, sb_rows * sb_cols)) ]

\* obu.rs 832-839 and 853-860: the increment bits read while log2 < max;
\* st = [res, log2, br], each turn's outcome bound as the one element of a set
RECURSIVE increment_loop(_, _)
increment_loop(st, max_log2) ==
    IF st.res # "Some" \/ st.log2 >= max_log2 THEN st
    ELSE CHOOSE r \in
            { IF b.res # "Some" THEN [res |-> b.res, log2 |-> st.log2, br |-> b.br]
              ELSE IF b.value[2] = 1
                   THEN CHOOSE q \in { increment_loop(n, max_log2) : n \in
                            {[res |-> "Some", log2 |-> st.log2 + 1, br |-> b.br]} } : TRUE
                   ELSE [res |-> "Some", log2 |-> st.log2, br |-> b.br]
              : b \in {BitReader_f(st.br, 1)} } : TRUE

\* obu.rs 840-847 and 861-868: the tiles of size_sb superblocks that cover sb
RECURSIVE uniform_tiles(_, _, _, _)
uniform_tiles(sb, size_sb, i, start_sb) ==
    IF start_sb < sb THEN uniform_tiles(sb, size_sb, i + 1, start_sb + size_sb) ELSE i

\* obu.rs 849-868: the rows of uniform tiles after the columns' outcome c
uniform_tile_rows(c, lim) ==
    LET tile_width_sb == (lim.sb_cols + Pow2(c.log2) - 1) \div Pow2(c.log2)
        min_log2_tile_rows == Max(lim.min_log2_tiles - c.log2, 0)
    IN  CHOOSE t \in
            { [res |-> r.res, br |-> r.br,
               tile_cols |-> uniform_tiles(lim.sb_cols, tile_width_sb, 0, 0),
               tile_rows |-> uniform_tiles(lim.sb_rows,
                                 (lim.sb_rows + Pow2(r.log2) - 1) \div Pow2(r.log2), 0, 0),
               tile_cols_log2 |-> c.log2, tile_rows_log2 |-> r.log2]
              : r \in {increment_loop([res |-> "Some", log2 |-> min_log2_tile_rows,
                                       br |-> c.br], lim.max_log2_tile_rows)} } : TRUE

\* obu.rs 829-869: uniform_tile_spacing_flag = 1
uniform_tile_spacing(br, lim) ==
    CHOOSE t \in
        { IF c.res # "Some"
          THEN [res |-> c.res, br |-> c.br, tile_cols |-> 0, tile_rows |-> 0,
                tile_cols_log2 |-> c.log2, tile_rows_log2 |-> 0]
          ELSE uniform_tile_rows(c, lim)
          : c \in {increment_loop([res |-> "Some", log2 |-> lim.min_log2_tile_cols,
                                   br |-> br], lim.max_log2_tile_cols)} } : TRUE

\* obu.rs 874-881 and 894-901: one turn of the loop that reads the tile
\* sizes with ns; st = [res, br, i, start_sb, widest]
sized_tile(st, sb, max_size_sb, bld) ==
    CHOOSE r \in
        { IF v.res # "Some" THEN [st EXCEPT !.res = v.res, !.br = v.br]
          ELSE [res |-> "Some", br |-> v.br, i |-> st.i + 1,
                start_sb |-> st.start_sb + u32_int(v.value) + 1,
                widest |-> Max(u32_int(v.value) + 1, st.widest)]
          : v \in {BitReader_ns(st.br, u32(Min(sb - st.start_sb, max_size_sb)), bld)} }
        : TRUE

\* the loop while start_sb < sb, for 2^k turns at most
RECURSIVE sized_tiles_turns(_, _, _, _, _)
sized_tiles_turns(st, sb, max_size_sb, bld, k) ==
    IF st.res # "Some" \/ st.start_sb >= sb THEN st
    ELSE IF k = 0 THEN sized_tile(st, sb, max_size_sb, bld)
    ELSE CHOOSE r \in
            { sized_tiles_turns(h, sb, max_size_sb, bld, k - 1)
              : h \in {sized_tiles_turns(st, sb, max_size_sb, bld, k - 1)} } : TRUE

\* obu.rs 873-881 and 893-901: start_sb grows by 1 or more each turn, so
\* the loop ends within sb turns, and sb <= 65536 / 64 < 2^11
sized_tiles(st, sb, max_size_sb, bld) == sized_tiles_turns(st, sb, max_size_sb, bld, 11)

\* obu.rs 883-906: the rows of sized tiles after the columns' outcome c
sized_tile_rows(c, lim, bld) ==
    LET max_tile_area_sb == IF lim.min_log2_tiles > 0
                            THEN (lim.sb_rows * lim.sb_cols) \div Pow2(lim.min_log2_tiles + 1)
                            ELSE lim.sb_rows * lim.sb_cols
        max_tile_height_sb == Max(max_tile_area_sb \div c.widest, 1)
    IN  CHOOSE t \in
            { [res |-> r.res, br |-> r.br, tile_cols |-> c.i, tile_rows |-> r.i,
               tile_cols_log2 |-> tile_log2(1, c.i), tile_rows_log2 |-> tile_log2(1, r.i)]
              : r \in {sized_tiles([res |-> "Some", br |-> c.br, i |-> 0, start_sb |-> 0,
                                    widest |-> 0], lim.sb_rows, max_tile_height_sb, bld)} }
            : TRUE

\* obu.rs 870-906: uniform_tile_spacing_flag = 0
sized_tile_spacing(br, lim, bld) ==
    CHOOSE t \in
        { IF c.res # "Some"
          THEN [res |-> c.res, br |-> c.br, tile_cols |-> c.i, tile_rows |-> 0,
                tile_cols_log2 |-> 0, tile_rows_log2 |-> 0]
          ELSE sized_tile_rows(c, lim, bld)
          : c \in {sized_tiles([res |-> "Some", br |-> br, i |-> 0, start_sb |-> 0,
                                widest |-> 0], lim.sb_cols, lim.max_tile_width_sb, bld)} }
        : TRUE

NoTileInfo ==
    [tile_cols |-> 0, tile_rows |-> 0, context_update_tile_id |-> 0, tile_size_bytes |-> 0]

\* the outcome of parse_tile_info: its result, the TileInfo, the reader, the
\* two log2s and whether context_update_tile_id and tile_size_bytes were read
TileInfoResult(res, ti, br, t, fields_read) ==
    [res |-> res, ti |-> ti, br |-> br, tile_cols_log2 |-> t.tile_cols_log2,
     tile_rows_log2 |-> t.tile_rows_log2, fields_read |-> fields_read]

\* mutant: the two fields read for every frame
tile_context_fields_always(t) ==
    LET id == BitReader_f(t.br, t.tile_cols_log2 + t.tile_rows_log2)
        sz == BitReader_f(id.br, 2)
        ti == [NoTileInfo EXCEPT !.tile_cols = t.tile_cols, !.tile_rows = t.tile_rows]
    IN  IF id.res # "Some" THEN TileInfoResult(id.res, NoTileInfo, id.br, t, TRUE)
        ELSE IF sz.res # "Some" THEN TileInfoResult(sz.res, NoTileInfo, sz.br, t, TRUE)
        ELSE TileInfoResult("Some",
                 [ti EXCEPT !.context_update_tile_id = u32_int(id.value),
                            !.tile_size_bytes = u32_int(sz.value) + 1],
                 sz.br, t, TRUE)

\* obu.rs 907-912
tile_context_fields(t) ==
    LET id == BitReader_f(t.br, t.tile_cols_log2 + t.tile_rows_log2)
        sz == BitReader_f(id.br, 2)
        ti == [NoTileInfo EXCEPT !.tile_cols = t.tile_cols, !.tile_rows = t.tile_rows]
    IN  IF t.tile_cols_log2 > 0 \/ t.tile_rows_log2 > 0
        THEN IF id.res # "Some" THEN TileInfoResult(id.res, NoTileInfo, id.br, t, TRUE)
             ELSE IF sz.res # "Some" THEN TileInfoResult(sz.res, NoTileInfo, sz.br, t, TRUE)
             ELSE TileInfoResult("Some",
                      [ti EXCEPT !.context_update_tile_id = u32_int(id.value),
                                 !.tile_size_bytes = u32_int(sz.value) + 1],
                      sz.br, t, TRUE)
        ELSE TileInfoResult("Some", ti, t.br, t, FALSE)

\* obu.rs 827-912: the tiles after uniform_tile_spacing_flag
parse_tile_spacing(uniform_tile_spacing_flag, lim, bld) ==
    IF uniform_tile_spacing_flag.res # "Some"
    THEN TileInfoResult("None", NoTileInfo, uniform_tile_spacing_flag.br,
                        [tile_cols_log2 |-> 0, tile_rows_log2 |-> 0], FALSE)
    ELSE CHOOSE q \in
            { IF t.res # "Some" THEN TileInfoResult(t.res, NoTileInfo, t.br, t, FALSE)
              ELSE tile_context_fields(t)
              : t \in {IF uniform_tile_spacing_flag.value[2] = 1
                       THEN uniform_tile_spacing(uniform_tile_spacing_flag.br, lim)
                       ELSE sized_tile_spacing(uniform_tile_spacing_flag.br, lim, bld)} }
            : TRUE

\* obu.rs 789-913
parse_tile_info(br, sh, fs, bld) ==
    CHOOSE q \in
        { parse_tile_spacing(flag, lim, bld)
          : flag \in {BitReader_f(br, 1)}, lim \in {tile_limits(sh, fs)} } : TRUE

-----------------------------------------------------------------------------
(* Specification SpecTile: parse_tile_info on sample frames and bits       *)

\* frame sizes in luma samples: a single superblock, 512 x 256 (MiCols 128,
\* MiRows 64), the largest width and area of one tile, and frames beyond
\* them up to the largest width frame_width_bits_minus_1 allows
TileFrameWidths == {8, 512, 1024, 4096, 4160, 8192, 65536}
TileFrameHeights == {8, 256, 2304, 4352}

\* the bits of tile_info(): first bytes with the uniform flag set and the
\* increment bits clear or set, and with the flag clear; empty and one-byte
\* sources; 52 zero bytes, enough for 65 tile widths of ns(64)
TileSources ==
    { <<b>> \o t : b \in {128, 192, 160, 224, 255, 0, 64, 85}, t \in {<<0, 0>>, <<255, 255>>} }
    \cup { <<>>, <<128>>, <<0>>, Rep(0, 52) }

TileInit ==
    /\ build \in Builds
    /\ config = [verbose |-> 0]
    /\ pc = "run"
    /\ \E w \in TileFrameWidths, h \in TileFrameHeights, sb \in BOOLEAN, b \in TileSources :
          seq = [ br |-> BitReader_over(b),
                  sh |-> [use_128x128_superblock |-> sb],
                  fs |-> [frame_width |-> w, frame_height |-> h] ]
    /\ stats = NoStats
    /\ last = [op |-> "new"]

\* obu.rs 2012: tile_info() within the frame header
ParseTileInfo ==
    /\ pc = "run"
    /\ last.op = "new"
    /\ \E r \in {parse_tile_info(seq.br, seq.sh, seq.fs, build)} :
          /\ seq' = [seq EXCEPT !.br = r.br]
          /\ pc' = IF r.res = "panic" THEN "panic" ELSE "done"
          /\ last' = [op |-> "parse_tile_info", res |-> r.res, ti |-> r.ti,
                      tile_cols_log2 |-> r.tile_cols_log2,
                      tile_rows_log2 |-> r.tile_rows_log2,
                      fields_read |-> r.fields_read, before |-> seq]
    /\ UNCHANGED <<build, config, stats>>

TileNext == ParseTileInfo

SpecTile == TileInit /\ [][TileNext]_vars

-----------------------------------------------------------------------------
(* Specification SpecFh: process_obu over sequence headers and frame       *)
(* headers of every frame type, with the outcome of parse_frame_header     *)
(* kept whole                                                              *)

\* sequence headers: order hints and no frame ids; frame ids of 8 bits; a
\* reduced still picture; film grain parameters present
FhSeqPayloads ==
    { SeqPayloadBase,
      [SeqPayloadBase EXCEPT !.seq_profile = 1, !.frame_id_numbers_present_flag = TRUE],
      [SeqPayloadBase EXCEPT !.seq_profile = 2, !.reduced_still_picture_header = TRUE],
      [SeqPayloadBase EXCEPT !.film_grain_params_present = TRUE] }

\* frame headers: a shown key frame; an inter frame on slot 0 written to
\* slot 1; show-existing of slots 0, 1 and 2; a key frame that is not shown
\* and whose error_resilient_mode bit is 0, written to slot 2; an
\* error-resilient intra-only frame; a switch frame on slot 0
FhFramePayloads ==
    FramePayloadsFrame
    \cup { [FramePayloadBase EXCEPT !.show_existing_frame = TRUE,
                                    !.frame_to_show_map_idx = i] : i \in 0 .. 2 }
    \cup { [FramePayloadBase EXCEPT !.show_frame = FALSE, !.showable_frame = TRUE,
                                    !.refresh_frame_flags = 4, !.current_frame_id = 102],
           [FramePayloadBase EXCEPT !.frame_type = INTRA_ONLY_FRAME, !.show_frame = FALSE,
                                    !.error_resilient_mode = TRUE, !.order_hint = 5,
                                    !.refresh_frame_flags = 4, !.current_frame_id = 104,
                                    !.ref_order_hint = [i \in Slots |-> 5]],
           [FramePayloadBase EXCEPT !.frame_type = SWITCH_FRAME, !.current_frame_id = 101,
                                    !.order_hint = 2] }

FhObus ==
    { [obu_type |-> OBU_SEQUENCE_HEADER, payload |-> p] : p \in FhSeqPayloads }
    \cup { [obu_type |-> OBU_FRAME_HEADER, payload |-> p] : p \in FhFramePayloads }

\* what parse_frame_header leaves when process_obu calls it on obu: its
\* result, the elements read, the header and the manager (main.rs 57-59)
FhParsed(sq, obu, bld) ==
    IF obu.obu_type = OBU_FRAME_HEADER /\ ~is_none(sq.sh)
    THEN Some([ k \in {"res", "pos", "fh", "rfman"} |->
                  parse_frame_header(obu.payload, unwrap(sq.sh), sq.rfman, bld)[k] ])
    ELSE None

\* the container loops of main.rs hand the next OBU to process_obu
ProcessFhObu ==
    /\ pc = "run"
    /\ \E obu \in FhObus :
          \E r \in {process_obu(seq, obu, config, build)} :
          \E st \in {StatsAfter(r)} :
              /\ st.decoded <= MaxDecode
              /\ st.shown <= MaxPresent
              /\ seq' = r.seq
              /\ pc' = r.pc
              /\ stats' = st
              /\ last' = [ op |-> "process_obu", before |-> seq,
                           obu_type |-> obu.obu_type, payload |-> obu.payload,
                           result |-> r.result,
                           parsed |-> FhParsed(seq, obu, build),
                           event |-> r.event ]
    /\ UNCHANGED <<build, config>>

FhNext == ProcessFhObu

SpecFh == Init /\ [][FhNext]_vars

-----------------------------------------------------------------------------
(* parse_skip_mode_params                                                  *)

SkipModeParams_default == [skip_mode_present |-> FALSE, skip_mode_frame |-> <<0, 0>>]

\* RefOrderHint[ref_frame_idx[i]] (obu.rs 1232, 1258)
skip_mode_ref_hint(i, fh, rfman) == rfman.ref_order_hint[fh.ref_frame_idx[i]]

\* obu.rs 1232-1244: reference i against the closest forward and backward
\* references found so far
skip_mode_closest(c, i, sh, fh, rfman) ==
    LET ref_hint == skip_mode_ref_hint(i, fh, rfman)
    IN  IF get_relative_dist(ref_hint, fh.order_hint, sh) < 0
        THEN IF c.forward_idx < 0 \/ get_relative_dist(ref_hint, c.forward_hint, sh) > 0
             THEN [c EXCEPT !.forward_idx = i, !.forward_hint = ref_hint]
             ELSE c
        ELSE IF get_relative_dist(ref_hint, fh.order_hint, sh) > 0
        THEN IF c.backward_idx < 0 \/ get_relative_dist(ref_hint, c.backward_hint, sh) < 0
             THEN [c EXCEPT !.backward_idx = i, !.backward_hint = ref_hint]
             ELSE c
        ELSE c

\* obu.rs 1231-1245
RECURSIVE skip_mode_closest_loop(_, _, _, _, _)
skip_mode_closest_loop(c, i, sh, fh, rfman) ==
    IF i = REFS_PER_FRAME THEN c
    ELSE skip_mode_closest_loop(skip_mode_closest(c, i, sh, fh, rfman), i + 1, sh, fh, rfman)

\* obu.rs 1258-1266: reference i against the second forward reference found
\* so far
skip_mode_second(c, i, forward_hint, sh, fh, rfman) ==
    LET ref_hint == skip_mode_ref_hint(i, fh, rfman)
    IN  IF /\ get_relative_dist(ref_hint, forward_hint, sh) < 0
           /\ \/ c.second_forward_id < 0
              \/ get_relative_dist(ref_hint, c.second_forward_hint, sh) > 0
        THEN [second_forward_id |-> i, second_forward_hint |-> ref_hint]
        ELSE c

\* obu.rs 1257-1267
RECURSIVE skip_mode_second_loop(_, _, _, _, _, _)
skip_mode_second_loop(c, i, forward_hint, sh, fh, rfman) ==
    IF i = REFS_PER_FRAME THEN c
    ELSE skip_mode_second_loop(skip_mode_second(c, i, forward_hint, sh, fh, rfman),
                               i + 1, forward_hint, sh, fh, rfman)

\* the pair of references a and b, as skip_mode_frame
skip_mode_pair(a, b) == <<LAST_FRAME + Min(a, b), LAST_FRAME + Max(a, b)>>

\* mutant: the pair in the order found
skip_mode_frames_unordered(sh, fh, rfman) ==
    LET c == skip_mode_closest_loop([forward_idx |-> -1, backward_idx |-> -1,
                                     forward_hint |-> 0, backward_hint |-> 0],
                                    0, sh, fh, rfman)
        s == skip_mode_second_loop([second_forward_id |-> -1, second_forward_hint |-> 0],
                                   0, c.forward_hint, sh, fh, rfman)
    IN  IF fh.frame_is_intra \/ ~fh.reference_select \/ ~sh.enable_order_hint
        THEN [allowed |-> FALSE, frame |-> <<0, 0>>]
        ELSE IF c.forward_idx < 0 THEN [allowed |-> FALSE, frame |-> <<0, 0>>]
        ELSE IF c.backward_idx >= 0
        THEN [allowed |-> TRUE,
              frame |-> <<LAST_FRAME + c.backward_idx, LAST_FRAME + c.forward_idx>>]
        ELSE IF s.second_forward_id < 0 THEN [allowed |-> FALSE, frame |-> <<0, 0>>]
        ELSE [allowed |-> TRUE,
              frame |-> <<LAST_FRAME + c.forward_idx, LAST_FRAME + s.second_forward_id>>]

\* obu.rs 1223-1276: skip_mode_allowed and skip_mode_frame
skip_mode_frames(sh, fh, rfman) ==
    LET c == skip_mode_closest_loop([forward_idx |-> -1, backward_idx |-> -1,
                                     forward_hint |-> 0, backward_hint |-> 0],
                                    0, sh, fh, rfman)
        s == skip_mode_second_loop([second_forward_id |-> -1, second_forward_hint |-> 0],
                                   0, c.forward_hint, sh, fh, rfman)
    IN  IF fh.frame_is_intra \/ ~fh.reference_select \/ ~sh.enable_order_hint
        THEN [allowed |-> FALSE, frame |-> <<0, 0>>]
        ELSE IF c.forward_idx < 0 THEN [allowed |-> FALSE, frame |-> <<0, 0>>]
        ELSE IF c.backward_idx >= 0
        THEN [allowed |-> TRUE, frame |-> skip_mode_pair(c.forward_idx, c.backward_idx)]
        ELSE IF s.second_forward_id < 0 THEN [allowed |-> FALSE, frame |-> <<0, 0>>]
        ELSE [allowed |-> TRUE, frame |-> skip_mode_pair(c.forward_idx, s.second_forward_id)]

\* obu.rs 1215-1284: [res, smp, br]
parse_skip_mode_params(br, sh, fh, rfman) ==
    CHOOSE r \in
        { IF ~m.allowed
          THEN [res |-> "Some", br |-> br,
                smp |-> [SkipModeParams_default EXCEPT !.skip_mode_frame = m.frame]]
          ELSE CHOOSE q \in
                  { IF b.res # "Some"
                    THEN [res |-> "None", br |-> b.br, smp |-> SkipModeParams_default]
                    ELSE [res |-> "Some", br |-> b.br,
                          smp |-> [skip_mode_present |-> b.value[2] = 1,
                                   skip_mode_frame |-> m.frame]]
                    : b \in {BitReader_f(br, 1)} } : TRUE
          : m \in {skip_mode_frames(sh, fh, rfman)} } : TRUE

-----------------------------------------------------------------------------
(* Specification SpecSkip: parse_skip_mode_params on sample references     *)

\* order hints of 3 bits, or none (obu.rs:1761)
SkipSeqHeaders ==
    { [enable_order_hint |-> TRUE, order_hint_bits |-> 3],
      [enable_order_hint |-> FALSE, order_hint_bits |-> 0] }

\* RefOrderHint of the eight slots: one hint in all of them, two hints in
\* turn, and rising and falling hints; all 0 without order hints
SkipRefOrderHints(sh) ==
    IF ~sh.enable_order_hint THEN { [i \in Slots |-> 0] }
    ELSE { [i \in Slots |-> h] : h \in 0 .. 7 }
         \cup { [i \in Slots |-> IF i % 2 = 0 THEN a ELSE b] : a, b \in {0, 1, 3, 4, 6, 7} }
         \cup { [i \in Slots |-> i], [i \in Slots |-> 7 - i], [i \in Slots |-> 3 - (i \div 2)] }

\* ref_frame_idx: a slot each, all on slot 0, and slots 0 and 1
SkipRefFrameIdx ==
    { [i \in 0 .. (REFS_PER_FRAME - 1) |-> i],
      [i \in 0 .. (REFS_PER_FRAME - 1) |-> 0],
      [i \in 0 .. (REFS_PER_FRAME - 1) |-> IF i < 3 THEN 0 ELSE 1] }

\* the frame header so far: reference_select is read for inter frames only
\* (obu.rs 2035-2039)
SkipFrameHeaders(sh) ==
    { [frame_is_intra |-> f[1], reference_select |-> f[2],
       order_hint |-> h, ref_frame_idx |-> idx]
      : f \in {<<TRUE, FALSE>>, <<FALSE, FALSE>>, <<FALSE, TRUE>>},
        h \in (IF sh.enable_order_hint THEN 0 .. 7 ELSE {0}),
        idx \in SkipRefFrameIdx }

SkipInit ==
    /\ build \in Builds
    /\ config = [verbose |-> 0]
    /\ pc = "run"
    /\ \E sh \in SkipSeqHeaders :
       \E fh \in SkipFrameHeaders(sh), hints \in SkipRefOrderHints(sh),
          b \in {<<>>, <<0>>, <<128>>} :
          seq = [ br |-> BitReader_over(b), sh |-> sh, fh |-> fh,
                  rfman |-> [RefFrameManager_new EXCEPT !.ref_order_hint = hints] ]
    /\ stats = NoStats
    /\ last = [op |-> "new"]

\* obu.rs 2041: skip_mode_params() within the frame header
ParseSkipModeParams ==
    /\ pc = "run"
    /\ last.op = "new"
    /\ \E r \in {parse_skip_mode_params(seq.br, seq.sh, seq.fh, seq.rfman)} :
          /\ seq' = [seq EXCEPT !.br = r.br]
          /\ pc' = "done"
          /\ last' = [op |-> "parse_skip_mode_params", res |-> r.res, smp |-> r.smp]
    /\ UNCHANGED <<build, config, stats>>

SkipNext == ParseSkipModeParams

SpecSkip == SkipInit /\ [][SkipNext]_vars

-----------------------------------------------------------------------------
(* Specification SpecGrain: parse_film_grain_params on the frame headers   *)
(* that reach it                                                           *)

\* show_frame, showable_frame and frame_type as obu.rs 1823-1836 leave them:
\* a shown frame is showable unless it is a key frame
GrainFrameHeaders ==
    { [FrameHeader_default EXCEPT !.frame_type = t, !.show_frame = s[1],
                                  !.showable_frame = s[2]]
      : t \in KEY_FRAME .. SWITCH_FRAME, s \in BOOLEAN \X BOOLEAN }
    \ { fh \in { [FrameHeader_default EXCEPT !.frame_type = t, !.show_frame = TRUE,
                                             !.showable_frame = b]
                 : t \in KEY_FRAME .. SWITCH_FRAME, b \in BOOLEAN }
        : fh.showable_frame # (fh.frame_type # KEY_FRAME) }

GrainInit ==
    /\ build \in Builds
    /\ config = [verbose |-> 0]
    /\ pc = "run"
    /\ \E fh \in GrainFrameHeaders, present \in BOOLEAN, asserts \in BOOLEAN,
          avail \in {0, 1, 40} :
          seq = [ st |-> [res |-> "run", pos |-> 0, avail |-> avail, fh |-> fh],
                  sh |-> [film_grain_params_present |-> present],
                  p |-> [film_grain_asserts |-> asserts] ]
    /\ stats = NoStats
    /\ last = [op |-> "new"]

\* obu.rs 2048: film_grain_params() within the frame header
ParseFilmGrainParams ==
    /\ pc = "run"
    /\ last.op = "new"
    /\ \E r \in {parse_film_grain_params(seq.st, seq.p, seq.sh)} :
          /\ seq' = [seq EXCEPT !.st = r]
          /\ pc' = IF r.res = "panic" THEN "panic" ELSE "done"
          /\ last' = [op |-> "parse_film_grain_params"]
    /\ UNCHANGED <<build, config, stats>>

GrainNext == ParseFilmGrainParams

SpecGrain == GrainInit /\ [][GrainNext]_vars

----------------------------------------------------------------------------
(* Claims on RefFrameManager (SpecRfm, SpecMark)                           *)

\* C1: after update_process(fh), decode_order is its prior value plus 1, and
\* every slot i with bit i of fh.refresh_frame_flags set is valid, holds
\* fh's current_frame_id, frame_type and order_hint, and has frame_buf[i]
\* equal to the decode_order from before the call.
C1_UpdateProcess ==
    [][ last'.op = "update_process" =>
          LET fh == last'.fh
              old == seq.rfman
              new == seq'.rfman
          IN  /\ new.decode_order = old.decode_order + 1
              /\ \A i \in Slots :
                    Bit(fh.refresh_frame_flags, i) = 1 =>
                        /\ new.ref_valid[i]
                        /\ new.ref_frame_id[i] = fh.current_frame_id
                        /\ new.ref_frame_type[i] = fh.frame_type
                        /\ new.ref_order_hint[i] = fh.order_hint
                        /\ new.frame_buf[i] = old.decode_order ]_vars

\* the second frame published, into slots 1 and 7 only, over a first frame
\* that filled every slot
C1_Witness ==
    /\ last.op = "update_process"
    /\ last.fh.refresh_frame_flags = 130
    /\ seq.rfman.decode_order = 2
    /\ seq.rfman.frame_buf[1] = 1 /\ seq.rfman.frame_buf[7] = 1
    /\ seq.rfman.frame_buf[0] = 0
    /\ seq.rfman.ref_frame_type[1] = SWITCH_FRAME
    /\ seq.rfman.ref_frame_type[0] = KEY_FRAME

\* f lies in the window (cur - 2^diff_len, cur] taken modulo 2^id_len
InWindowExcl(f, cur, diff_len, id_len) ==
    /\ f < Pow2(id_len)
    /\ (cur - f) % Pow2(id_len) < Pow2(diff_len)

\* f lies in the window [cur - 2^diff_len, cur] taken modulo 2^id_len
InWindowIncl(f, cur, diff_len, id_len) ==
    /\ f < Pow2(id_len)
    /\ (cur - f) % Pow2(id_len) <= Pow2(diff_len)

MarkReturned == last.op = "mark_ref_frames" /\ pc = "run"

C6_Original ==
    [][ (last'.op = "mark_ref_frames" /\ pc' = "run") =>
          LET old == seq.rfman
              new == seq'.rfman
              cur == last'.current_frame_id
              lim == Pow2(last'.id_len) + cur - Pow2(last'.diff_len)
          IN  /\ cur <= Pow2(last'.diff_len) =>
                    \A i \in Slots :
                        new.ref_valid[i] =
                            (old.ref_valid[i]
                             /\ ~(cur < old.ref_frame_id[i] /\ old.ref_frame_id[i] < lim))
              /\ \A i \in Slots : new.ref_valid[i] => old.ref_valid[i]
              /\ new.ref_frame_id = old.ref_frame_id
              /\ new.ref_frame_type = old.ref_frame_type
              /\ new.ref_order_hint = old.ref_order_hint
              /\ new.decode_order = old.decode_order
              /\ new.present_order = old.present_order ]_vars

----------------------------------------------------------------------------
(* Claims on get_relative_dist (SpecDist)                                  *)

\* C7: get_relative_dist returns 0 when order hints are disabled; when
\* enabled with order_hint_bits = n, for a, b in [0, 2^n) the result lies in
\* [-2^(n-1), 2^(n-1) - 1] and is 0 when a = b.
C7_RelativeDistRange ==
    last.op = "get_relative_dist" =>
        IF ~last.sh.enable_order_hint
        THEN last.result = 0
        ELSE /\ last.result >= -Pow2(last.sh.order_hint_bits - 1)
             /\ last.result <= Pow2(last.sh.order_hint_bits - 1) - 1
             /\ (last.a = last.b => last.result = 0)

\* the least value of the range is returned (n = 8, a = 0, b = 128)
C7_Witness ==
    /\ last.op = "get_relative_dist"
    /\ last.sh.enable_order_hint /\ last.sh.order_hint_bits = 8
    /\ last.a = 0 /\ last.b = 128
    /\ last.result = -128

DistCall(n, a, b) ==
    /\ last.op = "get_relative_dist"
    /\ last.sh.enable_order_hint /\ last.sh.order_hint_bits = n
    /\ last.a = a /\ last.b = b

\* C8 as stated: with order_hint_bits = 3, get_relative_dist(1, 7) = -2 and
\* get_relative_dist(7, 1) = -2.
C8_Original ==
    /\ DistCall(3, 1, 7) => last.result = -2
    /\ DistCall(3, 7, 1) => last.result = -2

\* C8 amended: with order_hint_bits = 3, get_relative_dist(1, 7) = 2 and
\* get_relative_dist(7, 1) = -2 (the distance is antisymmetric here).
C8_Amended ==
    /\ DistCall(3, 1, 7) => last.result = 2
    /\ DistCall(3, 7, 1) => last.result = -2

C8_Witness == DistCall(3, 1, 7) /\ last.result = 2

----------------------------------------------------------------------------
(* Claims on the stream driver (Spec)                                      *)

Processed == last.op = "process_obu"
FrameObu == Processed /\ last.obu_type \in {OBU_FRAME_HEADER, OBU_FRAME}
ParsedFrame == FrameObu /\ last.result = "Some"
LastFh == unwrap(last.fh)

\* C2: after any sequence of OBUs processed from a fresh Sequence,
\* decode_order is the number of frame headers parsed with
\* show_existing_frame = false and present_order the number parsed with
\* show_frame or show_existing_frame set; neither counter decreases, and each
\* changes by at most 1 per OBU.
C2_Counters ==
    /\ seq.rfman.decode_order = stats.decoded
    /\ seq.rfman.present_order = stats.shown
    /\ Processed =>
          /\ seq.rfman.decode_order - last.before.rfman.decode_order \in {0, 1}
          /\ seq.rfman.present_order - last.before.rfman.present_order \in {0, 1}

\* two headers decoded, of which one is shown, and then a show-existing
C2_Witness ==
    /\ ParsedFrame /\ LastFh.show_existing_frame
    /\ stats.decoded = 2 /\ stats.shown = 2
    /\ seq.rfman.decode_order = 2 /\ seq.rfman.present_order = 2

\* C3: when parse_frame_header returns a header with frame_type = Key and
\* show_frame = true (not show-existing), every slot has ref_valid = false
\* and refresh_frame_flags is 0xFF; after the driver's update_process all 8
\* slots are valid; on a fresh manager the frame leaves decode_order = 1 and
\* present_order = 1.
C3_ShownKeyFrame ==
    (ParsedFrame /\ ~LastFh.show_existing_frame
       /\ LastFh.frame_type = KEY_FRAME /\ LastFh.show_frame) =>
        /\ \A i \in Slots : ~last.ref_valid_parsed[i]
        /\ LastFh.refresh_frame_flags = 255
        /\ \A i \in Slots : seq.rfman.ref_valid[i]
        /\ last.before.rfman = RefFrameManager_new =>
              seq.rfman.decode_order = 1 /\ seq.rfman.present_order = 1

\* a shown key frame parsed while slots of an earlier frame were valid
C3_Witness ==
    /\ ParsedFrame /\ ~LastFh.show_existing_frame
    /\ LastFh.frame_type = KEY_FRAME /\ LastFh.show_frame
    /\ last.before.rfman.ref_valid[0] /\ last.before.rfman.ref_valid[7]
    /\ seq.rfman.decode_order = 2
    /\ \A i \in Slots : seq.rfman.frame_buf[i] = 1

\* C4: a parsed header with show_existing_frame = 1 never reaches
\* update_process: decode_order and every slot field are unchanged,
\* present_order is one more, and the decode index printed is
\* frame_buf[frame_to_show_map_idx]; also when the slot shown holds a key
\* frame and refresh_frame_flags is all ones.
C4_ShowExisting ==
    (ParsedFrame /\ LastFh.show_existing_frame) =>
        /\ seq.rfman = [last.before.rfman EXCEPT
                            !.present_order = last.before.rfman.present_order + 1]
        /\ last.event.kind = "show_existing"
        /\ last.event.decode_index =
              last.before.rfman.frame_buf[LastFh.frame_to_show_map_idx]

\* the slot shown holds the key frame decoded first
C4_Witness ==
    /\ ParsedFrame /\ LastFh.show_existing_frame
    /\ LastFh.frame_type = KEY_FRAME /\ LastFh.refresh_frame_flags = 255
    /\ seq.rfman.ref_valid[LastFh.frame_to_show_map_idx]
    /\ last.event.decode_index = 0
    /\ seq.rfman.decode_order = 1 /\ seq.rfman.present_order = 2

\* C9: while no sequence header is installed, a Frame Header or Frame OBU
\* is refused without being parsed: the manager is unchanged, no frame line
\* is printed, and the driver goes on to the next OBU.
C9_NoSequenceHeader ==
    (FrameObu /\ is_none(last.before.sh)) =>
        /\ last.result = "refused"
        /\ seq = last.before
        /\ last.event = NoEvent
        /\ pc = "run"

C9_Witness ==
    /\ FrameObu /\ is_none(last.before.sh) /\ last.obu_type = OBU_FRAME
    /\ last.result = "refused" /\ seq.rfman = RefFrameManager_new

\* C10: a Sequence Header OBU that parses replaces the installed header by
\* the parsed one; one that does not parse leaves the header, or its
\* absence, as it was; once a header is installed there is always one.
C10_SequenceHeader ==
    /\ (Processed /\ last.obu_type = OBU_SEQUENCE_HEADER) =>
          IF last.result = "Some" THEN seq.sh = last.sh ELSE seq.sh = last.before.sh
    /\ (Processed /\ ~is_none(last.before.sh)) => ~is_none(seq.sh)

\* a second sequence header, with frame ids, replaces the first
C10_Witness ==
    /\ Processed /\ last.obu_type = OBU_SEQUENCE_HEADER /\ last.result = "Some"
    /\ ~is_none(last.before.sh)
    /\ ~unwrap(last.before.sh).frame_id_numbers_present_flag
    /\ unwrap(seq.sh).frame_id_numbers_present_flag
    /\ unwrap(seq.sh).delta_frame_id_length = 4

\* C11: an OBU that is neither a Frame Header nor a Frame OBU (sequence
\* header, temporal delimiter, tile group, metadata, redundant frame header,
\* tile list, padding, reserved) leaves every field of the reference-frame
\* manager as it was, whether or not its payload parses.
C11_OtherObus ==
    (Processed /\ ~FrameObu) => seq.rfman = last.before.rfman

\* a new sequence header installed over a manager that already holds frames
C11_Witness ==
    /\ Processed
    /\ last.before.rfman.decode_order > 0
    /\ \E i \in Slots : last.before.rfman.ref_valid[i]
    /\ last.obu_type = OBU_SEQUENCE_HEADER /\ last.result = "Some"
    /\ seq.sh # last.before.sh

\* parse_frame_header has returned (a header or None) to process_obu
ParseReturned == FrameObu /\ last.result \in {"Some", "None"}

\* C12 as stated: parse_frame_header changes no field of the manager, so
\* the valid flags and order hints it returns with are those it was called
\* with, and after a parse that fails partway the manager is exactly as it
\* was before the call.
C12_Original ==
    /\ ParseReturned =>
           /\ last.ref_valid_parsed = last.before.rfman.ref_valid
           /\ last.ref_order_hint_parsed = last.before.rfman.ref_order_hint
    /\ (FrameObu /\ last.result = "None") => seq.rfman = last.before.rfman

\* C12 amended: parse_frame_header itself clears valid flags and zeroes
\* order hints of the manager (it never sets a flag and writes no other
\* hint value); after a parse that fails partway the manager keeps these
\* changes and every other field is as it was before the call.
C12_Amended ==
    /\ ParseReturned =>
           \A i \in Slots :
               /\ last.ref_valid_parsed[i] => last.before.rfman.ref_valid[i]
               /\ last.ref_order_hint_parsed[i] \in {last.before.rfman.ref_order_hint[i], 0}
    /\ (FrameObu /\ last.result = "None") =>
           seq.rfman = [last.before.rfman EXCEPT
                           !.ref_valid = last.ref_valid_parsed,
                           !.ref_order_hint = last.ref_order_hint_parsed]

\* a frame header cut short after show_frame: the parse fails and the slots
\* that were valid are invalid afterwards
C12_Witness ==
    /\ FrameObu /\ last.result = "None"
    /\ \E i \in Slots : last.before.rfman.ref_valid[i] /\ ~seq.rfman.ref_valid[i]
    /\ \E i \in Slots : last.before.rfman.ref_order_hint[i] # 0
                         /\ seq.rfman.ref_order_hint[i] = 0

\* C13: a sequence header or frame header OBU that uses a declined feature
\* (more than one operating point, decoder-model info, initial display
\* delay, set_frame_refs, frame_size_with_refs) or breaks a checked
\* conformance rule (a reference index naming an invalid slot, an
\* unexpected frame id) fails as an error value (no header, or a refusal)
\* and the driver goes on to the following OBUs instead of aborting.
C13_Original ==
    (Processed /\ last.obu_type \in {OBU_SEQUENCE_HEADER, OBU_FRAME_HEADER, OBU_FRAME}) =>
        /\ pc = "run"
        /\ last.result \in {"Some", "None", "refused"}

\* the positions of the bytes of b without continuation bit
LebStops(b) == { i \in 1 .. Len(b) : b[i] < 128 }

\* the first such position
LebFirstStop(b) == CHOOSE i \in LebStops(b) : \A j \in LebStops(b) : i <= j

\* the 7-bit group at position i of the encoding that ends at byte n
LebGroup(b, n, i) == IF i <= n THEN b[i] % 128 ELSE 0

\* the value encoded by the first n bytes of b is 2^32 or more
LebTooBig(b, n) == LebGroup(b, n, 5) >= 16 \/ \E i \in 6 .. 9 : LebGroup(b, n, i) # 0

\* the little-endian sum of the 7-bit groups of the first n bytes of b, for
\* a sum below 2^32, as 16-bit halves
LebSum(b, n) ==
    LET low == LebGroup(b, n, 1) + 128 * LebGroup(b, n, 2)
               + 16384 * (LebGroup(b, n, 3) % 4)
        high == (LebGroup(b, n, 3) \div 4) + 32 * LebGroup(b, n, 4)
                + 4096 * LebGroup(b, n, 5)
    IN  <<high, low>>

\* C16: leb128 returns an error value, neither a result nor an abort, for
\* every input whose first eight bytes all carry the continuation bit and
\* for every encoding whose value is 2^32 or more; for an accepted input the
\* byte count is the position of the first byte without continuation bit,
\* at most 8, and the value is the little-endian sum of the 7-bit groups.
C16_Original ==
    last.op = "leb128" =>
        LET b == seq.bytes
        IN  /\ (Len(b) >= 8 /\ \A i \in 1 .. 8 : b[i] >= 128) => last.res = "Err"
            /\ (LebStops(b) # {} /\ LebTooBig(b, LebFirstStop(b))) => last.res = "Err"
            /\ last.res = "Ok" =>
                   /\ LebStops(b) # {}
                   /\ last.len = LebFirstStop(b)
                   /\ last.len <= 8
                   /\ last.value = LebSum(b, last.len)

HeaderParsed == last.op = "parse_obu_header"

\* the first byte of the header just parsed, its flags, and the bytes that
\* follow the one or two header bytes
HdrByte1 == byte_at(last.before.bytes, last.before.pos)
HdrForbidden == HdrByte1 \div 128 = 1
HdrExt == (HdrByte1 \div 4) % 2 = 1
HdrHasSize == (HdrByte1 \div 2) % 2 = 1
HdrLen == IF HdrExt THEN 2 ELSE 1
HdrExtByte == byte_at(last.before.bytes, last.before.pos + 1)
HdrSizeField ==
    SubSeq(last.before.bytes, last.before.pos + HdrLen + 1, Len(last.before.bytes))

\* the source holds the header: its first byte, the extension byte when
\* flagged, and a size field that ends within eight bytes when flagged
HdrPresent ==
    /\ HeaderParsed
    /\ can_read(last.before.bytes, last.before.pos)
    /\ (~HdrForbidden /\ HdrExt) => can_read(last.before.bytes, last.before.pos + 1)
    /\ (~HdrForbidden /\ HdrHasSize) =>
           (LebStops(HdrSizeField) # {} /\ LebFirstStop(HdrSizeField) <= 8)

\* header bytes plus payload length exceed sz, the payload length being the
\* LEB128 value, as numbers
HdrTooLong ==
    LET n == LebFirstStop(HdrSizeField)
        total == u32_add(u32(HdrLen + n), LebSum(HdrSizeField, n))
    IN  \/ LebTooBig(HdrSizeField, n)
        \/ total.carry
        \/ u32_lt(last.before.sz, total.value)

\* C14: parse_obu_header(bs, sz) returns an error and no Obu when the
\* forbidden bit is 1 and when sz is smaller than the header bytes plus the
\* payload length (without size field: smaller than the header); otherwise
\* it returns type = bits 6..3, the extension and has-size flags, temporal
\* and spatial id of the extension byte (0 when absent) and payload length =
\* the LEB128 value, or sz minus the header bytes.
C14_Original ==
    HdrPresent =>
        IF HdrForbidden THEN last.res = "Err"
        ELSE IF HdrHasSize /\ HdrTooLong THEN last.res = "Err"
        ELSE IF ~HdrHasSize /\ u32_lt(last.before.sz, u32(HdrLen)) THEN last.res = "Err"
        ELSE /\ last.res = "Ok"
             /\ last.obu.obu_type = (HdrByte1 \div 8) % 16
             /\ last.obu.obu_extension_flag = HdrExt
             /\ last.obu.obu_has_size_field = HdrHasSize
             /\ last.obu.temporal_id = (IF HdrExt THEN HdrExtByte \div 32 ELSE 0)
             /\ last.obu.spatial_id = (IF HdrExt THEN (HdrExtByte \div 8) % 4 ELSE 0)
             /\ last.obu.obu_size =
                    (IF HdrHasSize
                     THEN LebSum(HdrSizeField, LebFirstStop(HdrSizeField))
                     ELSE u32_sub(last.before.sz, u32(HdrLen)))

\* C15: for every Obu returned, header_len is the number of bytes taken
\* from the source and header_len + obu_size <= sz with no carry out of 32
\* bits; in the loop of parse_ivf_format sz decreases by header_len +
\* obu_size, at least 1, without underflow, and the loop ends with sz = 0
\* after OBUs that add up to the frame size.
C15_Original ==
    /\ (HeaderParsed /\ last.res = "Ok") =>
           LET used == u32_add(last.obu.header_len, last.obu.obu_size)
           IN  /\ last.obu.header_len = u32(last.consumed)
               /\ ~used.carry
               /\ ~u32_lt(last.before.sz, used.value)
               /\ pc = "run"
               /\ seq.sz = u32_sub(last.before.sz, used.value)
               /\ u32_lt(seq.sz, last.before.sz)
    /\ (last.op = "frame_end") => last.before.sz = u32_zero

\* the number of bits a reader has handed out
BitsRead(br) == 8 * br.pos - br.bpos

\* bit j of a byte string, counted from the most significant bit of its
\* first byte
BitOf(b, j) == (b[(j \div 8) + 1] \div Pow2(7 - (j % 8))) % 2

\* the value of the cnt <= 16 bits of b from bit j on, first bit highest
RECURSIVE BitsValue(_, _, _)
BitsValue(b, j, cnt) ==
    IF cnt = 0 THEN 0 ELSE 2 * BitsValue(b, j, cnt - 1) + BitOf(b, j + cnt - 1)

\* the n <= 32 bit window of b from bit j on, as 16-bit halves
BitWindow(b, j, n) ==
    LET upper == IF n > 16 THEN n - 16 ELSE 0
    IN  <<BitsValue(b, j, upper), BitsValue(b, j + upper, n - upper)>>

\* C17: successive f(n) calls with n in 0..32 return the values of the
\* consecutive MSB-first bit windows of the byte string, across byte
\* boundaries, while the bits suffice; a call that needs more bits than
\* remain returns None.
C17_BitWindows ==
    last.op = "f" =>
        LET k == BitsRead(last.before)
        IN  IF k + last.nbit <= 8 * Len(seq.bytes)
            THEN /\ last.res = "Some"
                 /\ last.value = BitWindow(seq.bytes, k, last.nbit)
                 /\ BitsRead(seq) = k + last.nbit
            ELSE last.res = "None"

\* a 9-bit read that starts inside the second byte and ends in the third,
\* after earlier reads
C17_Witness ==
    /\ last.op = "f" /\ last.nbit = 9 /\ last.res = "Some"
    /\ BitsRead(last.before) = 11
    /\ seq.bytes = <<165, 60, 255, 0, 129>>
    /\ last.value = <<0, 463>>

\* 2^e for e <= 32 as 16-bit halves (the upper half is 65536 at e = 32)
Pow2Halves(e) == IF e <= 15 THEN <<0, Pow2(e)>> ELSE <<Pow2(e - 16), 0>>

\* floor(log2 n) of a u32 n >= 1
FloorLog2(n) ==
    CHOOSE s \in 0 .. 31 : ~u32_lt(n, Pow2Halves(s)) /\ u32_lt(n, Pow2Halves(s + 1))

\* ns(n) was called where floor(log2 n) + 1 bits were still unread
NsCalled == last.op = "ns" /\ BitsRead(last.before) + FloorLog2(last.n) + 1 <= 8 * Len(seq.bytes)

\* C18: for every n >= 1 and a stream with enough bits, ns(n) returns a
\* value strictly less than n and consumes floor(log2 n) or
\* floor(log2 n) + 1 bits, the shorter form exactly when the first
\* floor(log2 n) bits v satisfy v < 2^(floor(log2 n) + 1) - n.
C18_Original ==
    NsCalled =>
        LET l == FloorLog2(last.n)
            k == BitsRead(last.before)
            v == BitWindow(seq.bytes, k, l)
            used == BitsRead(seq) - k
        IN  /\ last.res = "Some"
            /\ u32_lt(last.value, last.n)
            /\ used \in {l, l + 1}
            /\ (used = l) <=> u32_lt(v, u32_sub(Pow2Halves(l + 1), last.n))

\* su(n) was called where n bits were still unread
SuCalled == last.op = "su" /\ BitsRead(last.before) + last.nbit <= 8 * Len(seq.bytes)

TileParsed == last.op = "parse_tile_info" /\ last.res = "Some"

\* the side of a superblock in luma samples
SbLuma == IF seq.sh.use_128x128_superblock THEN 128 ELSE 64

\* the frame in superblocks, rounded up from its 8-sample-aligned size
SbAcross(luma) == (8 * ((luma + 7) \div 8) + SbLuma - 1) \div SbLuma

\* the frame fits within the maximum width and the maximum area of one tile
FitsOneTile ==
    /\ SbAcross(seq.fs.frame_width) * SbLuma <= MAX_TILE_WIDTH
    /\ SbAcross(seq.fs.frame_width) * SbAcross(seq.fs.frame_height) * SbLuma * SbLuma
           <= MAX_TILE_AREA

\* the uniform flag is set and every bit read after it is 0
UniformNoIncrement ==
    /\ BitOf(seq.br.bytes, 0) = 1
    /\ \A j \in 1 .. (BitsRead(seq.br) - 1) : BitOf(seq.br.bytes, j) = 0

\* C20: on the uniform-spacing path, for a frame that fits within one
\* tile's maximum width and area and with no increment bit set, tile_cols =
\* 1 and tile_rows = 1 and neither context_update_tile_id nor
\* tile_size_bytes is read (context_update_tile_id = 0); in general the two
\* fields are read if and only if tile_cols_log2 or tile_rows_log2 is
\* non-zero.
C20_TileInfo ==
    /\ (TileParsed /\ FitsOneTile /\ UniformNoIncrement) =>
           /\ last.ti.tile_cols = 1
           /\ last.ti.tile_rows = 1
           /\ ~last.fields_read
           /\ last.ti.context_update_tile_id = 0
           /\ BitsRead(seq.br) <= 3
    /\ TileParsed =>
           (last.fields_read <=> (last.tile_cols_log2 > 0 \/ last.tile_rows_log2 > 0))

\* MiCols 128, MiRows 64, 64x64 superblocks, the uniform flag and two clear
\* increment bits: one tile, three bits read
C20_Witness ==
    /\ TileParsed /\ FitsOneTile /\ UniformNoIncrement
    /\ seq.fs = [frame_width |-> 512, frame_height |-> 256]
    /\ ~seq.sh.use_128x128_superblock
    /\ last.ti = [NoTileInfo EXCEPT !.tile_cols = 1, !.tile_rows = 1]
    /\ BitsRead(seq.br) = 3

-----------------------------------------------------------------------------
(* Claims on parse_frame_header (SpecFh)                                   *)

FhCalled == last.op = "process_obu" /\ ~is_none(last.parsed)

FhOut == unwrap(last.parsed)

FhReturned == FhCalled /\ FhOut.res = "Some"

FhSh == unwrap(last.before.sh)

\* the header read has show_existing_frame = 1
FhShowExisting ==
    FhCalled /\ ~FhSh.reduced_still_picture_header /\ last.payload.show_existing_frame

C22_Original ==
    (FhReturned /\ ~FhOut.fh.show_existing_frame) =>
        IF FhOut.fh.frame_type = SWITCH_FRAME
           \/ (FhOut.fh.frame_type = KEY_FRAME /\ FhOut.fh.show_frame)
        THEN FhOut.fh.error_resilient_mode
        ELSE FhOut.fh.error_resilient_mode = last.payload.error_resilient_mode

\* C23: every frame header returned by parse_frame_header has frame_is_intra
\* = true if and only if its frame_type is Key or IntraOnly, on all paths
\* including the reduced-still-picture path and the show-existing path.
C23_Original ==
    FhReturned =>
        (FhOut.fh.frame_is_intra <=>
            FhOut.fh.frame_type \in {KEY_FRAME, INTRA_ONLY_FRAME})

-----------------------------------------------------------------------------
(* Claims on the tile counts (SpecTile)                                    *)

\* C24: every tile_info successfully returned by parse_tile_info, on both
\* the uniform and the non-uniform paths and for every frame size a sequence
\* header can declare, has tile_cols <= MAX_TILE_COLS = 64 and tile_rows <=
\* MAX_TILE_ROWS = 64; each tile covers at least one superblock, so there
\* are at least one and at most as many tiles as superblocks in each
\* direction.
C24_Original ==
    TileParsed =>
        /\ last.ti.tile_cols <= MAX_TILE_COLS
        /\ last.ti.tile_rows <= MAX_TILE_ROWS
        /\ last.ti.tile_cols \in 1 .. SbAcross(seq.fs.frame_width)
        /\ last.ti.tile_rows \in 1 .. SbAcross(seq.fs.frame_height)

-----------------------------------------------------------------------------
(* Claims on parse_skip_mode_params (SpecSkip)                             *)

SkipReturned == last.op = "parse_skip_mode_params" /\ last.res = "Some"

SkipRefs == 0 .. (REFS_PER_FRAME - 1)

\* the order hint of reference i
SkipHint(i) == seq.rfman.ref_order_hint[seq.fh.ref_frame_idx[i]]

\* the cyclic distance of reference i from the current frame
SkipDist(i) == get_relative_dist(SkipHint(i), seq.fh.order_hint, seq.sh)

SkipForward == { i \in SkipRefs : SkipDist(i) < 0 }

SkipBackward == { i \in SkipRefs : SkipDist(i) > 0 }

\* skip mode is considered at all
SkipConsidered ==
    ~seq.fh.frame_is_intra /\ seq.fh.reference_select /\ seq.sh.enable_order_hint

\* a closest forward and a closest backward reference, or two forward
\* references at different distances
SkipPairExists ==
    /\ SkipConsidered
    /\ SkipForward # {}
    /\ (SkipBackward # {} \/ \E i, j \in SkipForward : SkipHint(i) # SkipHint(j))

\* the pair named by skip_mode_frame is made of references a and b
SkipNames(a, b) ==
    last.smp.skip_mode_frame = <<LAST_FRAME + Min(a, b), LAST_FRAME + Max(a, b)>>

\* reference i is the closest of the references in S, by order hint
SkipClosest(i, S) ==
    i \in S /\ \A j \in S : (IF SkipDist(j) < 0 THEN -SkipDist(j) ELSE SkipDist(j))
                            >= (IF SkipDist(i) < 0 THEN -SkipDist(i) ELSE SkipDist(i))

\* what the claim states of the references of a pair
SkipPairShape ==
    /\ last.smp.skip_mode_frame[1] <= last.smp.skip_mode_frame[2]
    /\ last.smp.skip_mode_frame[1] # last.smp.skip_mode_frame[2]
    /\ \A k \in 1 .. 2 : last.smp.skip_mode_frame[k] \in LAST_FRAME .. ALTREF_FRAME

\* the bit is not read and skip_mode_present is false
SkipNotRead == BitsRead(seq.br) = 0 /\ ~last.smp.skip_mode_present

\* C25 as stated: the skip_mode_present bit is read only when a reference
\* pair exists (closest forward plus closest backward by cyclic order-hint
\* distance, or the two closest forward references when no backward
\* reference exists); whenever a pair exists, skip_mode_frame[0] <=
\* skip_mode_frame[1], both lie in LAST_FRAME..ALTREF_FRAME and they name two
\* different references; when the frame is intra, reference_select is false
\* or order hints are disabled, no bit is read and skip_mode_present is
\* false.
C25_Original ==
    SkipReturned =>
        /\ BitsRead(seq.br) = 1 => SkipPairExists
        /\ SkipPairExists =>
              /\ SkipPairShape
              /\ IF SkipBackward # {}
                 THEN \E a \in SkipForward, b \in SkipBackward :
                          /\ SkipClosest(a, SkipForward)
                          /\ SkipClosest(b, SkipBackward)
                          /\ SkipNames(a, b)
                 ELSE \E a, b \in SkipForward :
                          /\ SkipClosest(a, SkipForward)
                          /\ SkipClosest(b, { j \in SkipForward : SkipHint(j) # SkipHint(a) })
                          /\ SkipNames(a, b)
        /\ ~SkipConsidered => SkipNotRead

\* no backward reference, every forward reference at the distance
\* -2^(order_hint_bits - 1), and a reference with the order hint of the
\* current frame: get_relative_dist places that reference before the
\* forward one
SkipWrapPair ==
    /\ SkipConsidered
    /\ SkipBackward = {}
    /\ SkipForward # {}
    /\ \A i \in SkipForward : SkipDist(i) = -Pow2(seq.sh.order_hint_bits - 1)
    /\ \E j \in SkipRefs : SkipDist(j) = 0

\* C25 amended: the skip_mode_present bit is read exactly when a pair
\* exists: the closest forward plus the closest backward reference, or
\* without a backward reference the two closest forward references, or,
\* when the only forward order hint is 2^(order_hint_bits - 1) behind and a
\* reference has the order hint of the current frame, the forward reference
\* plus that reference.  In each case skip_mode_frame[0] <=
\* skip_mode_frame[1], both lie in LAST_FRAME..ALTREF_FRAME and they name two
\* different references; when the frame is intra, reference_select is false
\* or order hints are disabled, no bit is read and skip_mode_present is
\* false.
C25_Amended ==
    SkipReturned =>
        /\ BitsRead(seq.br) = 1 <=> (SkipPairExists \/ SkipWrapPair)
        /\ SkipPairExists =>
              /\ SkipPairShape
              /\ IF SkipBackward # {}
                 THEN \E a \in SkipForward, b \in SkipBackward :
                          /\ SkipClosest(a, SkipForward)
                          /\ SkipClosest(b, SkipBackward)
                          /\ SkipNames(a, b)
                 ELSE \E a, b \in SkipForward :
                          /\ SkipClosest(a, SkipForward)
                          /\ SkipClosest(b, { j \in SkipForward : SkipHint(j) # SkipHint(a) })
                          /\ SkipNames(a, b)
        /\ SkipWrapPair =>
              /\ SkipPairShape
              /\ \E a \in SkipForward, b \in SkipRefs : SkipDist(b) = 0 /\ SkipNames(a, b)
        /\ ~(SkipPairExists \/ SkipWrapPair) =>
              SkipNotRead /\ last.smp.skip_mode_frame = <<0, 0>>

\* order hint 4 of 3 bits, references with the order hints 0 and 4 only:
\* the bit is read and is 1
C25_Witness ==
    /\ SkipReturned /\ SkipWrapPair
    /\ seq.fh.order_hint = 4
    /\ \A i \in SkipRefs : SkipHint(i) \in {0, 4}
    /\ BitsRead(seq.br) = 1
    /\ last.smp.skip_mode_present
    /\ last.smp.skip_mode_frame = <<LAST_FRAME, LAST_FRAME + 1>>

-----------------------------------------------------------------------------
(* Claims on parse_film_grain_params (SpecGrain)                           *)

\* C26: parse_film_grain_params reads no bits and returns the reset
\* parameters exactly when the sequence header has
\* film_grain_params_present = false or the frame is neither shown nor
\* showable; in every other case, including a frame that is not shown but
\* is showable, it reads apply_grain and continues with the film-grain
\* syntax.
C26_Original ==
    last.op = "parse_film_grain_params" =>
        ((seq.st.res = "run" /\ seq.st.pos = 0)
            <=> (\/ ~seq.sh.film_grain_params_present
                 \/ (~seq.st.fh.show_frame /\ ~seq.st.fh.showable_frame)))

-----------------------------------------------------------------------------
(* Claims on what the manager's operations leave alone (SpecRfm)           *)

\* slot i of every per-slot field of the manager
SlotOf(rf, i) ==
    <<rf.ref_valid[i], rf.ref_frame_id[i], rf.ref_frame_type[i], rf.ref_order_hint[i],
      rf.saved_gm_params[i], rf.frame_buf[i]>>

\* C27: update_process(fh) changes nothing except decode_order and the
\* slots selected by refresh_frame_flags: for every slot i whose bit i is
\* clear, ref_valid, ref_frame_id, ref_frame_type, ref_order_hint,
\* saved_gm_params and frame_buf of slot i are unchanged, and present_order
\* is unchanged; output_process changes nothing except present_order.
C27_FrameEffect ==
    [][ /\ last'.op = "update_process" =>
              /\ \A i \in Slots :
                    Bit(last'.fh.refresh_frame_flags, i) = 0 =>
                        SlotOf(seq'.rfman, i) = SlotOf(seq.rfman, i)
              /\ seq'.rfman.present_order = seq.rfman.present_order
              /\ seq'.sh = seq.sh
        /\ last'.op = "output_process" =>
              /\ \A i \in Slots : SlotOf(seq'.rfman, i) = SlotOf(seq.rfman, i)
              /\ seq'.rfman.decode_order = seq.rfman.decode_order
              /\ seq'.sh = seq.sh ]_vars

\* a frame shown, then a second frame published into slots 0 and 2 over a
\* first frame that filled every slot: slot 1 still holds the first frame
C27_Witness ==
    /\ last.op = "update_process"
    /\ last.fh.refresh_frame_flags = 5
    /\ last.fh.frame_type = INTER_FRAME
    /\ seq.rfman.decode_order = 2
    /\ seq.rfman.present_order = 1
    /\ seq.rfman.frame_buf[0] = 1 /\ seq.rfman.frame_buf[2] = 1
    /\ seq.rfman.frame_buf[1] = 0
    /\ seq.rfman.ref_valid[1]
    /\ seq.rfman.ref_frame_type[1] = KEY_FRAME

-----------------------------------------------------------------------------
(* Claims on the slots of a driven Sequence (Spec)                         *)

\* C28: in every state reachable by driving process_obu from a fresh
\* Sequence, a slot with ref_valid[i] = true has frame_buf[i] in [0,
\* decode_order), and no slot's originating decode number is ever greater
\* than or equal to the next decode index.
C28_ValidSlots ==
    \A i \in Slots :
        /\ seq.rfman.ref_valid[i] =>
              (0 <= seq.rfman.frame_buf[i]
                  /\ seq.rfman.frame_buf[i] < seq.rfman.decode_order)
        /\ seq.rfman.frame_buf[i] < seq.rfman.decode_order

\* two frames decoded: a slot holds the second one, and a slot written by
\* the first one has been invalidated since
C28_Witness ==
    /\ seq.rfman.decode_order = 2
    /\ \E i \in Slots : seq.rfman.ref_valid[i] /\ seq.rfman.frame_buf[i] = 1
    /\ \E j \in Slots : ~seq.rfman.ref_valid[j] /\ seq.rfman.frame_buf[j] = 0

-----------------------------------------------------------------------------
(* Claims on the frame-id arithmetic (SpecMark) and on frames shown again  *)
(* (Spec)                                                                  *)

\* C29: for every sequence header accepted with frame ids enabled, id_len
\* <= 16 and the 16-bit frame-id arithmetic of mark_ref_frames (1 <<
\* diff_len, 1 << id_len, current_frame_id - (1 << diff_len), (1 << id_len)
\* + current_frame_id - (1 << diff_len)) never overflows, underflows or
\* shifts by 16 or more: the call returns in every build, with no shift by
\* the full width of u16.
C29_Original ==
    last.op = "mark_ref_frames" =>
        /\ pc # "panic"
        /\ ~shl1_u16_overflows(last.diff_len)
        /\ (\E i \in Slots : seq.rfman.ref_frame_id[i] > last.current_frame_id
                             /\ last.current_frame_id <= Pow2(last.diff_len))
              => ~shl1_u16_overflows(last.id_len)

\* C30: whenever the driver reports a show-existing frame and advances
\* present_order for it, the slot frame_to_show_map_idx is valid and the
\* decode number printed, frame_buf[frame_to_show_map_idx], is in [0,
\* decode_order): a show-existing frame naming a never-written or
\* invalidated slot is not presented.
C30_Original ==
    (/\ ParsedFrame /\ LastFh.show_existing_frame
     /\ last.event.kind = "show_existing"
     /\ seq.rfman.present_order = last.before.rfman.present_order + 1) =>
        /\ last.before.rfman.ref_valid[LastFh.frame_to_show_map_idx]
        /\ 0 <= last.event.decode_index
        /\ last.event.decode_index < last.before.rfman.decode_order

====
